---- MODULE Spec2Model ----
(***************************************************************************)
(* A model of streamfilter: the KeywordRegistry and its Aho-Corasick       *)
(* automaton, the StreamProcessor (process / flush) and the stream_filter  *)
(* adapter of streamfilter/integration.py; and the token-level             *)
(* StreamManager of llm_stream_manager/core.py.                            *)
(*                                                                         *)
(* Characters are one-letter strings, a keyword, a buffer and a token are  *)
(* sequences of characters.  A trie node is named by the string that       *)
(* spells its path from the root, so the root is the empty sequence.       *)
(* A callback is named by a string; what it may return at an invocation   *)
(* is a nondeterministic choice among Returns(cb).                         *)
(***************************************************************************)
EXTENDS Integers, Sequences, FiniteSets, TLC

VARIABLES
    reg,    \* the KeywordRegistry object
    sp,     \* the StreamProcessor object
    ad,     \* the frame of the generator stream_filter returns (sync_wrap)
    g,      \* observation of the run: what the callers saw (no program state)
    twin    \* a second StreamProcessor, run beside sp on the same input

vars == <<reg, sp, ad, g, twin>>

----------------------------------------------------------------------------
(* Bounds of the model *)

\* the number of process() calls of a run
MaxInput == 4

\* the number of flush() calls a direct caller makes in a run
MaxFlush == 1

\* the number of tokens the producer yields in an adapter run
MaxTokens == 2

Alphabet == {"a", "b"}

----------------------------------------------------------------------------
(* Sequence helpers *)

Last(s) == s[Len(s)]

Front(s) == SubSeq(s, 1, Len(s) - 1)

\* s[:-n] for 0 < n <= Len(s)
DropLast(s, n) == SubSeq(s, 1, Len(s) - n)

\* s[-n:] for 0 < n <= Len(s)
TakeLast(s, n) == SubSeq(s, Len(s) - n + 1, Len(s))

Range(s) == {s[i] : i \in 1..Len(s)}

Max2(a, b) == IF a >= b THEN a ELSE b

IsSuffix(k, s) == Len(k) <= Len(s) /\ TakeLast(s, Len(k)) = k

----------------------------------------------------------------------------
(* ActionType / ActionDecision, and what a callback invocation can do *)

ActionType == {"PASS", "DROP", "REPLACE", "HALT", "CONTINUE_DROP", "CONTINUE_PASS"}

ActionDecision(type, replacement) == [type |-> type, replacement |-> replacement]

\* the helpers of core.py
passthrough == ActionDecision("PASS", <<>>)
drop == ActionDecision("DROP", <<>>)
halt == ActionDecision("HALT", <<>>)
continuous_drop == ActionDecision("CONTINUE_DROP", <<>>)
continuous_pass == ActionDecision("CONTINUE_PASS", <<>>)
replace(text) == ActionDecision("REPLACE", text)

\* a callback that returns None, and one that raises an exception of its own
ReturnsNone == ActionDecision("None", <<>>)
Raises == ActionDecision("raise", <<>>)

\* the replacement texts callbacks use: empty, shorter and longer than a keyword
ReplTexts == {<<>>, <<"a">>, <<"a", "b", "a">>}

\* What an invocation of callback cb may produce.
Returns(cb) ==
    CASE cb = "any"     -> {ReturnsNone, Raises, passthrough, drop, halt,
                            continuous_drop, continuous_pass}
                           \cup {replace(t) : t \in ReplTexts}
      [] cb = "rewrite" -> {passthrough} \cup {replace(t) : t \in ReplTexts}
      [] cb = "quiet"   -> {ReturnsNone, passthrough}
      [] cb = "cut"     -> {passthrough, drop, replace(<<>>)}
      [] cb = "edit"    -> {passthrough, drop, replace(<<"a", "b", "a">>), halt}
      [] cb = "segment" -> {continuous_drop, continuous_pass, halt}
      [] cb = "stop"    -> {halt, passthrough}
      [] cb = "drops"   -> {passthrough, drop}
      [] cb = "toggle"  -> {continuous_drop, continuous_pass}

----------------------------------------------------------------------------
(* KeywordRegistry *)

\* _keywords is a dict in insertion order: a sequence of (keyword, callbacks)
KwEntry(kw, cbs) == [kw |-> kw, callbacks |-> cbs]

KwSet(keywords) == {keywords[i].kw : i \in 1..Len(keywords)}

root == <<>>

\* _Node(): the nodes of the trie built by compile, one per prefix of a keyword
TrieNodes(keywords) ==
    {root} \cup UNION {{SubSeq(kw, 1, i) : i \in 1..Len(kw)} : kw \in KwSet(keywords)}

\* ch in n.children
HasChild(nodes, n, ch) == Append(n, ch) \in nodes

\* the node's own keyword with its callbacks in reverse order
RECURSIVE OwnOutputReversed(_, _)
OwnOutputReversed(keywords, n) ==
    IF keywords = <<>> THEN <<>>
    ELSE (IF keywords[1].kw = n
          THEN <<[keywords[1] EXCEPT !.callbacks =
                    [k \in 1..Len(@) |-> @[Len(@) + 1 - k]]]>>
          ELSE <<>>)
         \o OwnOutputReversed(Tail(keywords), n)

\* node.output right after the trie is built: the node's own keyword, if any
RECURSIVE OwnOutput(_, _)
OwnOutput(keywords, n) ==
    IF keywords = <<>> THEN <<>>
    ELSE (IF keywords[1].kw = n THEN <<keywords[1]>> ELSE <<>>)
         \o OwnOutput(Tail(keywords), n)

\* every failure link set to the root
FailOfRoot(nodes, n) == root

\* The failure link the breadth-first pass of compile gives node n: the
\* children of the root fail to the root; a deeper node, reached from its
\* parent by ch, walks the parent's failure chain (FailWalk).
RECURSIVE FailOf(_, _)
RECURSIVE FailWalk(_, _, _)
FailOf(nodes, n) ==
    IF Len(n) <= 1 THEN root
    ELSE FailWalk(nodes, FailOf(nodes, Front(n)), Last(n))

\* while f is not root and ch not in f.children: f = f.fail;
\* then f.children.get(ch, root)
FailWalk(nodes, f, ch) ==
    IF f # root /\ ~HasChild(nodes, f, ch)
    THEN FailWalk(nodes, FailOf(nodes, f), ch)
    ELSE IF HasChild(nodes, f, ch) THEN Append(f, ch) ELSE root

\* node.output without the outputs of the failure target
OutputOfOwn(keywords, n) == OwnOutput(keywords, n)

\* node.output after compile: child.output.extend(child.fail.output), done for
\* the nodes below the root's children in breadth-first order
RECURSIVE OutputOf(_, _)
OutputOf(keywords, n) ==
    IF Len(n) <= 1 THEN OwnOutput(keywords, n)
    ELSE OwnOutput(keywords, n) \o OutputOf(keywords, FailOf(TrieNodes(keywords), n))

\* compile without "self._max_len = max_len"
MaxKwLenUnset(keywords) == 0

\* max_len of compile
RECURSIVE MaxKwLen(_)
MaxKwLen(keywords) ==
    IF keywords = <<>> THEN 0
    ELSE Max2(Len(keywords[1].kw), MaxKwLen(Tail(keywords)))

\* the automaton compile stores in _root
Automaton(keywords) ==
    LET nodes == TrieNodes(keywords)
    IN  [nodes  |-> nodes,
         fail   |-> [n \in nodes |-> FailOf(nodes, n)],
         output |-> [n \in nodes |-> OutputOf(keywords, n)]]

\* _root before the first compile
NoAutomaton == [nodes |-> {}, fail |-> <<>>, output |-> <<>>]

\* KeywordRegistry.__init__ followed by the register calls that build `keywords`
NewRegistry(keywords) ==
    [keywords |-> keywords, compiled |-> FALSE, root |-> NoAutomaton, max_len |-> 0]

compile(r) ==
    [r EXCEPT !.root = Automaton(r.keywords),
              !.max_len = MaxKwLen(r.keywords),
              !.compiled = TRUE]

\* register without marking the automaton stale
registerStale(r, keyword, callback) ==
    [r EXCEPT !.keywords =
        IF keyword \in KwSet(@)
        THEN [k \in 1..Len(@) |->
                IF @[k].kw = keyword
                THEN [@[k] EXCEPT !.callbacks = Append(@, callback)] ELSE @[k]]
        ELSE Append(@, KwEntry(keyword, <<callback>>))]

register(r, keyword, callback) ==
    [r EXCEPT !.keywords =
        IF keyword \in KwSet(@)
        THEN [k \in 1..Len(@) |->
                IF @[k].kw = keyword
                THEN [@[k] EXCEPT !.callbacks = Append(@, callback)] ELSE @[k]]
        ELSE Append(@, KwEntry(keyword, <<callback>>)),
              !.compiled = FALSE]

\* the callback argument left out
None == "None"

\* del self._keywords[keyword]
DelKeyword(keywords, keyword) == SelectSeq(keywords, LAMBDA e : e.kw # keyword)

\* a remove that takes out the last occurrence
list_removeLast(cbs, callback) ==
    LET j == CHOOSE k \in 1..Len(cbs) :
                 cbs[k] = callback /\ \A m \in (k+1)..Len(cbs) : cbs[m] # callback
    IN  SubSeq(cbs, 1, j - 1) \o SubSeq(cbs, j + 1, Len(cbs))

\* list.remove(callback), the callback being in the list
list_remove(cbs, callback) ==
    LET j == CHOOSE k \in 1..Len(cbs) :
                 cbs[k] = callback /\ \A m \in 1..(k-1) : cbs[m] # callback
    IN  SubSeq(cbs, 1, j - 1) \o SubSeq(cbs, j + 1, Len(cbs))

\* callback is None or one of the registered callbacks
deregister(r, keyword, callback) ==
    IF keyword \notin KwSet(r.keywords) THEN r
    ELSE LET cbs == (CHOOSE e \in Range(r.keywords) : e.kw = keyword).callbacks
         IN  IF callback = None
             THEN [r EXCEPT !.keywords = DelKeyword(@, keyword), !.compiled = FALSE]
             ELSE IF callback \notin Range(cbs)
             THEN [r EXCEPT !.compiled = FALSE]         \* except ValueError: pass
             ELSE IF list_remove(cbs, callback) = <<>>
             THEN [r EXCEPT !.keywords = DelKeyword(@, keyword), !.compiled = FALSE]
             ELSE [r EXCEPT !.keywords =
                      [k \in 1..Len(@) |->
                         IF @[k].kw = keyword
                         THEN [@[k] EXCEPT !.callbacks = list_remove(cbs, callback)]
                         ELSE @[k]],
                            !.compiled = FALSE]

\* max_len(): the registry afterwards and the value returned
max_len(r) ==
    LET c == IF r.compiled THEN r ELSE compile(r)
    IN  [reg |-> c, ret |-> c.max_len]

----------------------------------------------------------------------------
(* StreamHistory / _NullHistory *)

\* a StreamHistory whatever the flag
NewHistoryReal(record_history) ==
    [real |-> TRUE, inputs |-> <<>>, outputs |-> <<>>, actions |-> <<>>]

\* StreamHistory() if record_history else _NullHistory()
NewHistory(record_history) ==
    [real |-> record_history, inputs |-> <<>>, outputs |-> <<>>, actions |-> <<>>]

record_input(h, ch) == IF h.real THEN [h EXCEPT !.inputs = Append(@, ch)] ELSE h

record_output(h, cs) == IF h.real THEN [h EXCEPT !.outputs = @ \o cs] ELSE h

\* a record made only once the decision has been applied: none for HALT
record_actionApplied(h, pos, kw, decision) ==
    IF h.real /\ decision.type # "HALT"
    THEN [h EXCEPT !.actions = Append(@, [pos |-> pos, kw |-> kw, decision |-> decision])]
    ELSE h

record_action(h, pos, kw, decision) ==
    IF h.real
    THEN [h EXCEPT !.actions = Append(@, [pos |-> pos, kw |-> kw, decision |-> decision])]
    ELSE h

----------------------------------------------------------------------------
(* StreamProcessor *)

\* StreamProcessor.__init__ against a compiled registry r
NewProcessor(r, record_history) ==
    [root      |-> r.root,
     max_len   |-> r.max_len,
     node      |-> root,
     buffer    |-> <<>>,
     pos       |-> 0,
     history   |-> NewHistory(record_history),
     drop_mode |-> FALSE]

\* StreamProcessor(registry, record_history=...): compiles a stale registry
StreamProcessorInit(r, record_history) ==
    LET c == IF r.compiled THEN r ELSE compile(r)
    IN  [reg |-> c, sp |-> NewProcessor(c, record_history)]

\* the Aho-Corasick transition of process
RECURSIVE Transition(_, _, _)
Transition(A, n, ch) ==
    IF ~HasChild(A.nodes, n, ch) /\ n # root
    THEN Transition(A, A.fail[n], ch)
    ELSE IF HasChild(A.nodes, n, ch) THEN Append(n, ch) ELSE root

\* max(output, key=lambda x: len(x[0])): the first entry of maximal length
RECURSIVE LongestFrom(_, _)
LongestFrom(best, rest) ==
    IF rest = <<>> THEN best
    ELSE LongestFrom(IF Len(rest[1].kw) > Len(best.kw) THEN rest[1] ELSE best,
                     Tail(rest))

\* min in place of max
RECURSIVE ShortestFrom(_, _)
ShortestFrom(best, rest) ==
    IF rest = <<>> THEN best
    ELSE ShortestFrom(IF Len(rest[1].kw) < Len(best.kw) THEN rest[1] ELSE best,
                      Tail(rest))

Shortest(output) == ShortestFrom(output[1], Tail(output))

Longest(output) == LongestFrom(output[1], Tail(output))

\* for _ in range(len(kw)): if self._buffer: self._buffer.pop()
PopKeyword(buffer, kw) ==
    IF Len(kw) <= Len(buffer) THEN DropLast(buffer, Len(kw)) ELSE <<>>

\* prior = all_buf[:-len(kw)] if len(kw) <= len(all_buf) else []
\* (for the empty keyword the slice is all_buf[:-0], the empty list)
Prior(all_buf, kw) ==
    IF Len(kw) <= Len(all_buf)
    THEN (IF Len(kw) = 0 THEN <<>> ELSE DropLast(all_buf, Len(kw)))
    ELSE <<>>

\* marker = all_buf[-len(kw):] if len(kw) <= len(all_buf) else all_buf
\* (for the empty keyword the slice is all_buf[-0:], the whole list)
Marker(all_buf, kw) ==
    IF Len(kw) <= Len(all_buf)
    THEN (IF Len(kw) = 0 THEN all_buf ELSE TakeLast(all_buf, Len(kw)))
    ELSE all_buf

(* A process() call in progress is a record w: sp, the processor being
   changed; out, the list the call will return; exc, the exception it is
   unwinding with ("none", "halt" for StreamHalted, "error" for a callback's
   own); and, as observation only, src (for each buffer character the input
   position it came from, 0 for a replacement character), outSrc (the same
   for out) and calls (one entry per callback invocation). *)

\* for c in cs: self._history.record_output(c); out.append(c)
Emit(w, cs, ss) ==
    [w EXCEPT !.sp.history = record_output(@, cs),
              !.out = @ \o cs,
              !.outSrc = @ \o ss]

\* a CONTINUE_DROP branch without the test of the drop-mode flag
ApplyContinueDropUnguarded(w, kw) ==
    LET all_buf == w.sp.buffer
        cleared == [w EXCEPT !.sp.buffer = <<>>, !.src = <<>>]
    IN  [Emit(cleared, Prior(all_buf, kw), Prior(w.src, kw))
           EXCEPT !.sp.drop_mode = TRUE]

\* the CONTINUE_DROP branch
ApplyContinueDrop(w, kw) ==
    IF ~w.sp.drop_mode
    THEN LET all_buf == w.sp.buffer
             cleared == [w EXCEPT !.sp.buffer = <<>>, !.src = <<>>]
         IN  [Emit(cleared, Prior(all_buf, kw), Prior(w.src, kw))
                EXCEPT !.sp.drop_mode = TRUE]
    ELSE [w EXCEPT !.sp.drop_mode = TRUE]

\* a CONTINUE_PASS branch without the test of the drop-mode flag
ApplyContinuePassUnguarded(w, kw) ==
    LET all_buf == w.sp.buffer
        cleared == [w EXCEPT !.sp.buffer = <<>>, !.src = <<>>]
    IN  [Emit(cleared, Marker(all_buf, kw), Marker(w.src, kw))
           EXCEPT !.sp.drop_mode = FALSE]

\* the CONTINUE_PASS branch
ApplyContinuePass(w, kw) ==
    IF w.sp.drop_mode
    THEN LET all_buf == w.sp.buffer
             cleared == [w EXCEPT !.sp.buffer = <<>>, !.src = <<>>]
         IN  [Emit(cleared, Marker(all_buf, kw), Marker(w.src, kw))
                EXCEPT !.sp.drop_mode = FALSE]
    ELSE [w EXCEPT !.sp.drop_mode = FALSE]

\* the DROP branch
ApplyDrop(w, kw) ==
    [w EXCEPT !.sp.buffer = PopKeyword(@, kw), !.src = PopKeyword(@, kw)]

\* a REPLACE branch that does nothing at all for an empty replacement
ApplyReplaceNonEmpty(w, kw, replacement) ==
    IF replacement = <<>> THEN w
    ELSE [w EXCEPT !.sp.buffer = PopKeyword(@, kw) \o replacement,
                   !.src = PopKeyword(@, kw) \o [i \in 1..Len(replacement) |-> 0]]

\* the REPLACE branch
ApplyReplace(w, kw, replacement) ==
    [w EXCEPT !.sp.buffer = PopKeyword(@, kw) \o replacement,
              !.src = PopKeyword(@, kw) \o [i \in 1..Len(replacement) |-> 0]]

\* the if / elif chain on decision.type (HALT is handled by RunCallbacks)
ApplyDecision(w, kw, decision) ==
    CASE decision.type = "CONTINUE_DROP" -> ApplyContinueDrop(w, kw)
      [] decision.type = "CONTINUE_PASS" -> ApplyContinuePass(w, kw)
      [] decision.type = "DROP"          -> ApplyDrop(w, kw)
      [] decision.type = "REPLACE"       -> ApplyReplace(w, kw, decision.replacement)
      [] OTHER                           -> w

\* the buffer, the list out and the drop-mode flag of a call in progress
Snapshot(w) ==
    [buffer |-> w.sp.buffer, out |-> w.out, drop_mode |-> w.sp.drop_mode]

\* what is observed of the i-th callback invocation of a match: the context
\* it is given (keyword, buffer, absolute_pos, the history's inputs), what it
\* did, and the call's state when its decision has been applied (after)
Invocation(w, kw, i, d) ==
    [pos |-> w.sp.pos, kw |-> kw, i |-> i, buffer |-> w.sp.buffer,
     src |-> w.src, drop_mode |-> w.sp.drop_mode, flushes |-> w.flushes, dec |-> d,
     out |-> w.out, inputs |-> w.sp.history.inputs, history |-> w.sp.history,
     after |-> Snapshot(w)]

\* the state in which the decision of the last invocation has left the call
Applied(w) == [w EXCEPT !.calls[Len(w.calls)].after = Snapshot(w)]

\* for cb in callbacks: ..., the outcomes of the invocations being ds
RECURSIVE RunCallbacks(_, _, _, _)
RunCallbacks(w, kw, ds, i) ==
    IF i > Len(ds) THEN w
    ELSE LET d  == ds[i]
             w1 == [w EXCEPT !.calls = Append(@, Invocation(w, kw, i, d))]
         IN  IF d = Raises THEN [w1 EXCEPT !.exc = "error"]
             ELSE IF d = ReturnsNone THEN RunCallbacks(w1, kw, ds, i + 1)
             ELSE LET w2 == [w1 EXCEPT !.sp.history =
                                record_action(@, w.sp.pos, kw, d)]
                  IN  IF d.type = "HALT" THEN [w2 EXCEPT !.exc = "halt"]
                      ELSE RunCallbacks(Applied(ApplyDecision(w2, kw, d)),
                                        kw, ds, i + 1)

\* if len(self._buffer) > self._max_len
LazyFlushDue(s) == Len(s.buffer) > s.max_len

\* lazy flush with the drop-mode test inverted
LazyFlushInverted(w) ==
    IF LazyFlushDue(w.sp)
    THEN LET c == Head(w.sp.buffer)
             popped == [w EXCEPT !.sp.buffer = Tail(@), !.src = Tail(@)]
         IN  IF w.sp.drop_mode THEN Emit(popped, <<c>>, <<Head(w.src)>>)
             ELSE popped
    ELSE w

\* lazy flush taking the newest character: pop() for popleft()
LazyFlushNewest(w) ==
    IF LazyFlushDue(w.sp)
    THEN LET c == Last(w.sp.buffer)
             popped == [w EXCEPT !.sp.buffer = Front(@), !.src = Front(@)]
         IN  IF ~w.sp.drop_mode THEN Emit(popped, <<c>>, <<Last(w.src)>>)
             ELSE popped
    ELSE w

\* Lazy flush: c = self._buffer.popleft(), emitted unless in drop mode
LazyFlush(w) ==
    IF LazyFlushDue(w.sp)
    THEN LET c == Head(w.sp.buffer)
             popped == [w EXCEPT !.sp.buffer = Tail(@), !.src = Tail(@)]
         IN  IF ~w.sp.drop_mode THEN Emit(popped, <<c>>, <<Head(w.src)>>)
             ELSE popped
    ELSE w

\* a matcher that looks for the keywords at the end of the buffer
MatchAtBuffer(s, ch) ==
    LET entries == UNION {Range(s.root.output[n]) : n \in s.root.nodes}
        found   == {e \in entries : IsSuffix(e.kw, Append(s.buffer, ch))}
    IN  IF found = {} THEN <<>>
        ELSE <<CHOOSE e \in found : \A f \in found : Len(f.kw) <= Len(e.kw)>>

\* the match process(ch) dispatches in processor s: the longest entry of the
\* output of the node reached, or none
MatchAt(s, ch) ==
    LET n == Transition(s.root, s.node, ch)
    IN  IF s.root.output[n] # <<>> THEN <<Longest(s.root.output[n])>> ELSE <<>>

\* a process(ch) that leaves the node where the match was found
processNoReset(s, src, flushes, ch, ds) ==
    LET m  == MatchAt(s, ch)
        s1 == [s EXCEPT !.history = record_input(@, ch),
                        !.buffer = Append(@, ch),
                        !.pos = @ + 1,
                        !.node = Transition(s.root, s.node, ch)]
        w0 == [sp |-> s1, src |-> Append(src, s1.pos), flushes |-> flushes,
               out |-> <<>>, outSrc |-> <<>>, calls |-> <<>>, exc |-> "none"]
        w1 == IF m # <<>> THEN RunCallbacks(w0, m[1].kw, ds, 1) ELSE w0
    IN  IF w1.exc # "none" THEN w1 ELSE LazyFlush(w1)

\* StreamProcessor.process(ch), the callbacks it invokes producing ds in turn
process(s, src, flushes, ch, ds) ==
    LET m  == MatchAt(s, ch)
        s1 == [s EXCEPT !.history = record_input(@, ch),
                        !.buffer = Append(@, ch),
                        !.pos = @ + 1,
                        !.node = Transition(s.root, s.node, ch)]
        w0 == [sp |-> s1, src |-> Append(src, s1.pos), flushes |-> flushes,
               out |-> <<>>, outSrc |-> <<>>, calls |-> <<>>, exc |-> "none"]
        w1 == IF m # <<>> THEN RunCallbacks(w0, m[1].kw, ds, 1) ELSE w0
    IN  IF w1.exc # "none" THEN w1
        ELSE LazyFlush(IF m # <<>> THEN [w1 EXCEPT !.sp.node = root] ELSE w1)

\* a flush() without the test of the drop-mode flag
flushAll(s) ==
    [sp |-> [s EXCEPT !.history = record_output(@, s.buffer), !.buffer = <<>>],
     out |-> s.buffer]

\* a flush() that also takes the automaton back to the root
flushResetting(s) ==
    IF s.drop_mode
    THEN [sp |-> [s EXCEPT !.buffer = <<>>, !.node = root], out |-> <<>>]
    ELSE [sp |-> [s EXCEPT !.history = record_output(@, s.buffer),
                           !.buffer = <<>>, !.node = root],
          out |-> s.buffer]

\* StreamProcessor.flush(): the processor afterwards and the list returned
flush(s) ==
    IF s.drop_mode
    THEN [sp |-> [s EXCEPT !.buffer = <<>>], out |-> <<>>]
    ELSE [sp |-> [s EXCEPT !.history = record_output(@, s.buffer),
                           !.buffer = <<>>],
          out |-> s.buffer]

\* The outcomes a run of the callback list cbs can have: one per callback
\* invoked, the run ending at the first that halts or raises.
RECURSIVE OutcomeSeqs(_)
OutcomeSeqs(cbs) ==
    IF cbs = <<>> THEN {<<>>}
    ELSE UNION {
           IF d.type \in {"HALT", "raise"} THEN {<<d>>}
           ELSE {<<d>> \o t : t \in OutcomeSeqs(Tail(cbs))}
         : d \in Returns(cbs[1])}

\* the outcomes the callbacks of process(ch) can have in processor s
Outcomes(s, ch) ==
    LET m == MatchAt(s, ch)
    IN  IF m = <<>> THEN {<<>>} ELSE OutcomeSeqs(m[1].callbacks)

----------------------------------------------------------------------------
(* The registries of the runs, as the register calls made before the
   processor is constructed leave _keywords *)

Registries ==
    { <<>>,
      <<KwEntry(<<"a", "b">>, <<"any">>)>>,
      <<KwEntry(<<"b">>, <<"edit">>), KwEntry(<<"a", "b">>, <<"rewrite">>)>>,
      <<KwEntry(<<"a">>, <<"quiet">>), KwEntry(<<"a", "b">>, <<"edit">>)>>,
      <<KwEntry(<<"b">>, <<"stop">>), KwEntry(<<"b", "a", "b">>, <<"rewrite">>)>>,
      <<KwEntry(<<"a", "b">>, <<"cut", "edit">>)>>,
      <<KwEntry(<<"b">>, <<"segment", "stop">>)>>,
      <<KwEntry(<<"b">>, <<"drops", "toggle">>)>>,
      <<KwEntry(<<"b">>, <<"toggle", "toggle">>)>>,
      <<KwEntry(<<"a", "a">>, <<"drops", "stop">>)>>,
      <<KwEntry(<<"b">>, <<"quiet">>), KwEntry(<<"b", "b">>, <<"drops">>),
        KwEntry(<<"a", "b">>, <<"drops">>)>> }

----------------------------------------------------------------------------
(* Direct use of a StreamProcessor: process(ch) and flush() in any order *)

NoAdapter == [pc |-> "unused"]

NoTwin == [used |-> FALSE]

\* nothing observed yet
NewObservation ==
    [inputs   |-> <<>>,      \* the characters passed to process()
     returned |-> <<>>,      \* the characters process() and flush() returned
     retSrc   |-> <<>>,      \* for each, the input position it came from
     src      |-> <<>>,      \* the same for each character of the buffer
     calls    |-> <<>>,      \* the callback invocations
     flushes  |-> 0,         \* the number of flush() calls
     halted   |-> FALSE,     \* a process() call has raised StreamHalted
     last     |-> [op |-> "new", out |-> <<>>, exc |-> "none"]]

Init ==
    /\ \E keywords \in Registries : reg = compile(NewRegistry(keywords))
    /\ sp = NewProcessor(reg, TRUE)
    /\ ad = NoAdapter
    /\ g = NewObservation
    /\ twin = NoTwin

\* what a caller of process(ch) sees: the list on a normal return, nothing
\* when the call raises
Observe(w, ch) ==
    [g EXCEPT !.inputs = Append(@, ch),
              !.returned = IF w.exc = "none" THEN @ \o w.out ELSE @,
              !.retSrc = IF w.exc = "none" THEN @ \o w.outSrc ELSE @,
              !.src = w.src,
              !.calls = @ \o w.calls,
              !.halted = @ \/ w.exc = "halt",
              !.last = [op |-> "process",
                        out |-> IF w.exc = "none" THEN w.out ELSE <<>>,
                        exc |-> w.exc]]

\* what flush() adds to the observation
ObserveFlush(f) ==
    [g EXCEPT !.returned = @ \o f.out,
              !.retSrc = @ \o (IF sp.drop_mode THEN <<>> ELSE g.src),
              !.src = <<>>,
              !.flushes = @ + 1,
              !.last = [op |-> "flush", out |-> f.out, exc |-> "none"]]

\* sp.process(ch)
Process ==
    /\ Len(g.inputs) < MaxInput
    /\ \E ch \in Alphabet : \E ds \in Outcomes(sp, ch) :
         LET w == process(sp, g.src, g.flushes, ch, ds)
         IN  /\ sp' = w.sp
             /\ g' = Observe(w, ch)
    /\ UNCHANGED <<reg, ad, twin>>

\* sp.flush()
Flush ==
    /\ g.flushes < MaxFlush
    /\ LET f == flush(sp)
       IN  /\ sp' = f.sp
           /\ g' = ObserveFlush(f)
    /\ UNCHANGED <<reg, ad, twin>>

Next == Process \/ Flush

Spec == Init /\ [][Next]_vars

----------------------------------------------------------------------------
(* Two StreamProcessors on the same registry, given the same characters and
   the same callback decisions, except that in the second (twin.sp) one
   decision that repeats the previous CONTINUE_DROP / CONTINUE_PASS is
   replaced by PASS *)

TwinRegistries ==
    { <<KwEntry(<<"b">>, <<"toggle", "toggle">>)>>,
      <<KwEntry(<<"b">>, <<"drops", "toggle">>)>>,
      <<KwEntry(<<"a", "b">>, <<"segment">>)>> }

NewTwin(r) ==
    [used |-> TRUE, sp |-> NewProcessor(r, TRUE), src |-> <<>>, returned |-> <<>>,
     replaced |-> "", at |-> 0]

InitTwin ==
    /\ \E keywords \in TwinRegistries : reg = compile(NewRegistry(keywords))
    /\ sp = NewProcessor(reg, TRUE)
    /\ ad = NoAdapter
    /\ g = NewObservation
    /\ twin = NewTwin(reg)

\* the type of the last CONTINUE_DROP / CONTINUE_PASS among the decisions ds
RECURSIVE LastSegmentDecision(_)
LastSegmentDecision(ds) ==
    IF ds = <<>> THEN ""
    ELSE IF Last(ds).type \in {"CONTINUE_DROP", "CONTINUE_PASS"} THEN Last(ds).type
    ELSE LastSegmentDecision(Front(ds))

\* the decisions applied so far in the run of sp
Decided == [k \in 1..Len(g.calls) |-> g.calls[k].dec]

\* ds[k] repeats the CONTINUE_DROP / CONTINUE_PASS applied last before it
Repeats(ds, k) ==
    /\ ds[k].type \in {"CONTINUE_DROP", "CONTINUE_PASS"}
    /\ LastSegmentDecision(Decided \o SubSeq(ds, 1, k - 1)) = ds[k].type

\* sp.process(ch) and twin.sp.process(ch), the callbacks deciding alike, or
\* alike but for the one replaced decision
TwinProcess ==
    /\ Len(g.inputs) < MaxInput
    /\ \E ch \in Alphabet : \E ds \in Outcomes(sp, ch) :
         LET w == process(sp, g.src, g.flushes, ch, ds)
         IN  /\ sp' = w.sp
             /\ g' = Observe(w, ch)
             /\ \/ LET v == process(twin.sp, twin.src, g.flushes, ch, ds)
                   IN  twin' = [twin EXCEPT
                                  !.sp = v.sp, !.src = v.src,
                                  !.returned = IF v.exc = "none" THEN @ \o v.out ELSE @]
                \/ /\ twin.replaced = ""
                   /\ \E k \in 1..Len(w.calls) :
                        /\ Repeats(ds, k)
                        /\ LET v == process(twin.sp, twin.src, g.flushes, ch,
                                            [ds EXCEPT ![k] = passthrough])
                           IN  twin' = [twin EXCEPT
                                          !.sp = v.sp, !.src = v.src,
                                          !.returned = IF v.exc = "none"
                                                       THEN @ \o v.out ELSE @,
                                          !.replaced = ds[k].type,
                                          !.at = Len(g.calls) + k]
    /\ UNCHANGED <<reg, ad>>

\* sp.flush() and twin.sp.flush()
TwinFlush ==
    /\ g.flushes < MaxFlush
    /\ LET f == flush(sp)
           e == flush(twin.sp)
       IN  /\ sp' = f.sp
           /\ g' = ObserveFlush(f)
           /\ twin' = [twin EXCEPT !.sp = e.sp, !.src = <<>>,
                                   !.returned = @ \o e.out]
    /\ UNCHANGED <<reg, ad>>

NextTwin == TwinProcess \/ TwinFlush

SpecTwin == InitTwin /\ [][NextTwin]_vars

----------------------------------------------------------------------------
(* Two StreamProcessors on the same registry, given the same characters and
   the same callback decisions, except that in the second (twin.sp) every
   REPLACE with the empty string is a DROP *)

SwapRegistries ==
    { <<KwEntry(<<"a", "b">>, <<"cut", "edit">>)>>,
      <<KwEntry(<<"b">>, <<"cut", "toggle">>)>>,
      <<KwEntry(<<"a", "b">>, <<"any">>)>> }

NewSwap(r) ==
    [used |-> TRUE, sp |-> NewProcessor(r, TRUE), src |-> <<>>, returned |-> <<>>,
     swapped |-> 0]

InitSwap ==
    /\ \E keywords \in SwapRegistries : reg = compile(NewRegistry(keywords))
    /\ sp = NewProcessor(reg, TRUE)
    /\ ad = NoAdapter
    /\ g = NewObservation
    /\ twin = NewSwap(reg)

\* the decisions ds with DROP for every REPLACE of the empty string
DropForEmptyReplace(ds) ==
    [k \in 1..Len(ds) |-> IF ds[k] = replace(<<>>) THEN drop ELSE ds[k]]

\* how many REPLACE decisions with the empty string the invocations hold
EmptyReplaces(calls) ==
    Cardinality({k \in 1..Len(calls) : calls[k].dec = replace(<<>>)})

\* the two processors after process(ch): w the call of sp, v that of twin.sp
SwapAfter(w, v, ch) ==
    /\ sp' = w.sp
    /\ g' = Observe(w, ch)
    /\ twin' = [twin EXCEPT !.sp = v.sp, !.src = v.src,
                            !.returned = IF v.exc = "none" THEN @ \o v.out ELSE @,
                            !.swapped = @ + EmptyReplaces(w.calls)]

\* sp.process(ch) and twin.sp.process(ch)
SwapProcess ==
    /\ Len(g.inputs) < MaxInput
    /\ \E ch \in Alphabet : \E ds \in Outcomes(sp, ch) :
         SwapAfter(process(sp, g.src, g.flushes, ch, ds),
                   process(twin.sp, twin.src, g.flushes, ch, DropForEmptyReplace(ds)),
                   ch)
    /\ UNCHANGED <<reg, ad>>

\* the two processors after flush(): f that of sp, e that of twin.sp
SwapFlushed(f, e) ==
    /\ sp' = f.sp
    /\ g' = ObserveFlush(f)
    /\ twin' = [twin EXCEPT !.sp = e.sp, !.src = <<>>, !.returned = @ \o e.out]

\* sp.flush() and twin.sp.flush()
SwapFlush ==
    /\ g.flushes < MaxFlush
    /\ SwapFlushed(flush(sp), flush(twin.sp))
    /\ UNCHANGED <<reg, ad>>

NextSwap == SwapProcess \/ SwapFlush

SpecSwap == InitSwap /\ [][NextSwap]_vars

----------------------------------------------------------------------------
(* A StreamProcessor on every small keyword set: the matcher *)

\* the keywords: the strings of one to three characters
MatcherKeywords ==
    UNION {{<<x>>, <<x, y>>, <<x, y, z>>} : x \in Alphabet, y \in Alphabet, z \in Alphabet}

\* the keyword sets: up to three keywords
KeywordSets == {K \in SUBSET MatcherKeywords : Cardinality(K) <= 3}

\* register(kw, stop) for each keyword of K, in some order
RECURSIVE RegisterAll(_)
RegisterAll(K) ==
    IF K = {} THEN NewRegistry(<<>>)
    ELSE LET kw == CHOOSE x \in K : \A y \in K : Len(y) <= Len(x)
         IN  register(RegisterAll(K \ {kw}), kw, "stop")

InitMatcher ==
    /\ \E K \in KeywordSets : reg = compile(RegisterAll(K))
    /\ sp = NewProcessor(reg, TRUE)
    /\ ad = NoAdapter
    /\ g = NewObservation
    /\ twin = NoTwin

NextMatcher == Process

SpecMatcher == InitMatcher /\ [][NextMatcher]_vars

----------------------------------------------------------------------------
(* Two StreamProcessors on the same registry, given the same characters,
   the callbacks of each deciding on their own (without HALT, without
   raising); the second (twin.sp) records history or not *)

PairRegistries ==
    { <<KwEntry(<<"a", "b">>, <<"rewrite">>)>>,
      <<KwEntry(<<"b">>, <<"toggle">>)>>,
      <<KwEntry(<<"b">>, <<"drops">>), KwEntry(<<"a", "b">>, <<"cut">>)>>,
      <<KwEntry(<<"a">>, <<"stop">>)>> }

NewPair(r, record_history) ==
    [used |-> TRUE, record_history |-> record_history,
     sp |-> NewProcessor(r, record_history), src |-> <<>>,
     returned |-> <<>>, calls |-> <<>>, same |-> TRUE]

InitPair ==
    /\ \E keywords \in PairRegistries : reg = compile(NewRegistry(keywords))
    /\ sp = NewProcessor(reg, TRUE)
    /\ ad = NoAdapter
    /\ g = NewObservation
    /\ \E record_history \in BOOLEAN : twin = NewPair(reg, record_history)

\* the outcomes in which no callback returns HALT or raises
Continuing(outcomes) ==
    {ds \in outcomes : \A k \in 1..Len(ds) : ds[k].type \notin {"HALT", "raise"}}

\* sp.process(ch) and twin.sp.process(ch)
PairProcess ==
    /\ Len(g.inputs) < MaxInput
    /\ \E ch \in Alphabet :
         \E ds \in Continuing(Outcomes(sp, ch)) :
         \E es \in Continuing(Outcomes(twin.sp, ch)) :
           LET w == process(sp, g.src, g.flushes, ch, ds)
               v == process(twin.sp, twin.src, g.flushes, ch, es)
           IN  /\ sp' = w.sp
               /\ g' = Observe(w, ch)
               /\ twin' = [twin EXCEPT !.sp = v.sp, !.src = v.src,
                                       !.returned = @ \o v.out,
                                       !.calls = @ \o v.calls,
                                       !.same = @ /\ es = ds]
    /\ UNCHANGED <<reg, ad>>

\* sp.flush() and twin.sp.flush()
PairFlush ==
    /\ g.flushes < MaxFlush
    /\ LET f == flush(sp)
           e == flush(twin.sp)
       IN  /\ sp' = f.sp
           /\ g' = ObserveFlush(f)
           /\ twin' = [twin EXCEPT !.sp = e.sp, !.src = <<>>,
                                   !.returned = @ \o e.out]
    /\ UNCHANGED <<reg, ad>>

NextPair == PairProcess \/ PairFlush

SpecPair == InitPair /\ [][NextPair]_vars

----------------------------------------------------------------------------
(* A KeywordRegistry under register, deregister, compile and max_len calls,
   and StreamProcessors constructed on it *)

MaxOps == 4

RegKeywords == {<<"b">>, <<"a", "b">>, <<"b", "b">>}

RegCallbacks == {"quiet", "drops"}

NoProcessor == [used |-> FALSE]

\* the last call made on the registry: its arguments and what it returned
RegObservation(n, op, keyword, callback, ret) ==
    [ops |-> n, last |-> [op |-> op, kw |-> keyword, cb |-> callback, ret |-> ret]]

InitRegistry ==
    /\ reg = NewRegistry(<<>>)
    /\ sp = NoProcessor
    /\ ad = NoAdapter
    /\ g = RegObservation(0, "new", <<>>, None, 0)
    /\ twin = NoTwin

Register ==
    /\ g.ops < MaxOps
    /\ \E keyword \in RegKeywords : \E callback \in RegCallbacks :
         /\ reg' = register(reg, keyword, callback)
         /\ g' = RegObservation(g.ops + 1, "register", keyword, callback, 0)
    /\ UNCHANGED <<sp, ad, twin>>

Deregister ==
    /\ g.ops < MaxOps
    /\ \E keyword \in RegKeywords : \E callback \in RegCallbacks \cup {None} :
         /\ reg' = deregister(reg, keyword, callback)
         /\ g' = RegObservation(g.ops + 1, "deregister", keyword, callback, 0)
    /\ UNCHANGED <<sp, ad, twin>>

Compile ==
    /\ g.ops < MaxOps
    /\ reg' = compile(reg)
    /\ g' = RegObservation(g.ops + 1, "compile", <<>>, None, 0)
    /\ UNCHANGED <<sp, ad, twin>>

MaxLenCall ==
    /\ g.ops < MaxOps
    /\ reg' = max_len(reg).reg
    /\ g' = RegObservation(g.ops + 1, "max_len", <<>>, None, max_len(reg).ret)
    /\ UNCHANGED <<sp, ad, twin>>

Construct ==
    /\ g.ops < MaxOps
    /\ \E record_history \in BOOLEAN :
         /\ reg' = StreamProcessorInit(reg, record_history).reg
         /\ sp' = StreamProcessorInit(reg, record_history).sp
    /\ g' = RegObservation(g.ops + 1, "construct", <<>>, None, 0)
    /\ UNCHANGED <<ad, twin>>

NextRegistry == Register \/ Deregister \/ Compile \/ MaxLenCall \/ Construct

SpecRegistry == InitRegistry /\ [][NextRegistry]_vars

----------------------------------------------------------------------------
(* A StreamProcessor in use while its registry is changed.  What the
   processor and the registry share is a matter of which objects they hold,
   so here the objects are kept apart from the references to them: reg is
   the store of the objects the registry's methods create and change,

     lists    the callback lists; a list is known by its index, and
              list.append and list.remove change it in place
     roots    the automata compile has built, known by index; an output
              entry (kw, callbacks) of a node holds the index of a list
     registry the KeywordRegistry: _keywords maps a keyword to the index
              of its list, _root is the index of an automaton (0 for None)

   and sp._root is the index of the automaton the processor holds.  sp is
   constructed on the registry, which then takes register, deregister and
   compile calls; twin.sp is a processor constructed at the same time on a
   registry that is left alone, given the same characters and callback
   results *)

SnapRegistries ==
    { <<KwEntry(<<"a", "b">>, <<"cut">>), KwEntry(<<"b">>, <<"drops">>)>> }

SnapKeywords == {<<"b">>, <<"a", "b">>}

SnapCallbacks == {"stop"}

\* the number of process() calls made on the two processors
MaxSnapInput == 3

\* KeywordRegistry() followed by the register calls that build `keywords`:
\* one list object per keyword
NewObjects(keywords) ==
    [lists    |-> [k \in 1..Len(keywords) |-> keywords[k].callbacks],
     roots    |-> <<>>,
     registry |-> [keywords |-> [k \in 1..Len(keywords) |->
                                   KwEntry(keywords[k].kw, k)],
                   compiled |-> FALSE, root |-> 0, max_len |-> 0]]

\* self._keywords[keyword]: the index of the keyword's list
ListOf(o, keyword) ==
    (CHOOSE e \in Range(o.registry.keywords) : e.kw = keyword).callbacks

\* KeywordRegistry.register: self._keywords[keyword].append(callback) on the
\* list the keyword has, or a new list [callback] for a new keyword
object_register(o, keyword, callback) ==
    IF keyword \in KwSet(o.registry.keywords)
    THEN [o EXCEPT !.lists[ListOf(o, keyword)] = Append(@, callback),
                   !.registry.compiled = FALSE]
    ELSE [o EXCEPT !.lists = Append(@, <<callback>>),
                   !.registry.keywords =
                       Append(@, KwEntry(keyword, Len(o.lists) + 1)),
                   !.registry.compiled = FALSE]

\* KeywordRegistry.deregister: del self._keywords[keyword], or
\* self._keywords[keyword].remove(callback) on the list itself and the del
\* once the list is empty
object_deregister(o, keyword, callback) ==
    IF keyword \notin KwSet(o.registry.keywords) THEN o
    ELSE IF callback = None
    THEN [o EXCEPT !.registry.keywords = DelKeyword(@, keyword),
                   !.registry.compiled = FALSE]
    ELSE IF callback \notin Range(o.lists[ListOf(o, keyword)])
    THEN [o EXCEPT !.registry.compiled = FALSE]
    ELSE [o EXCEPT !.lists[ListOf(o, keyword)] = list_remove(@, callback),
                   !.registry.keywords =
                       IF list_remove(o.lists[ListOf(o, keyword)], callback) = <<>>
                       THEN DelKeyword(@, keyword) ELSE @,
                   !.registry.compiled = FALSE]

\* a compile whose output entries hold the registry's own lists:
\* (kw, callbacks) for (kw, list(callbacks))
object_compileSharing(o) ==
    [o EXCEPT !.roots = Append(@, Automaton(o.registry.keywords)),
              !.registry.root = Len(o.roots) + 1,
              !.registry.max_len = MaxKwLen(o.registry.keywords),
              !.registry.compiled = TRUE]

\* KeywordRegistry.compile: root = _Node() and the trie below it are new
\* objects, each output entry holds list(callbacks), a new list with the
\* callbacks the keyword has now; self._root = root
object_compile(o) ==
    LET n      == Len(o.registry.keywords)
        copies == [k \in 1..n |-> o.lists[o.registry.keywords[k].callbacks]]
        copied == [k \in 1..n |->
                     KwEntry(o.registry.keywords[k].kw, Len(o.lists) + k)]
    IN  [o EXCEPT !.lists = @ \o copies,
                  !.roots = Append(@, Automaton(copied)),
                  !.registry.root = Len(o.roots) + 1,
                  !.registry.max_len = MaxKwLen(o.registry.keywords),
                  !.registry.compiled = TRUE]

\* StreamProcessor(registry): compiles a stale registry, then
\* self._root = registry._root (the same object) and
\* self._max_len = registry._max_len
object_construct(o, record_history) ==
    LET c == IF o.registry.compiled THEN o ELSE object_compile(o)
    IN  [objects |-> c, sp |-> NewProcessor(c.registry, record_history)]

\* the automaton at index a as process() finds it by following the
\* references: the nodes with the callbacks their output entries' lists
\* hold now
AutomatonAt(o, a) ==
    [o.roots[a] EXCEPT !.output =
        [n \in o.roots[a].nodes |->
            [k \in 1..Len(o.roots[a].output[n]) |->
                [o.roots[a].output[n][k] EXCEPT !.callbacks = o.lists[@]]]]]

\* the processor s with self._root followed
Loaded(o, s) == [s EXCEPT !.root = AutomatonAt(o, s.root)]

NewSnap(c) ==
    [used |-> TRUE, sp |-> NewProcessor(c, TRUE), src |-> <<>>, returned |-> <<>>,
     calls |-> <<>>, keywords |-> c.keywords, ops |-> 0, last |-> "new"]

\* the processor constructed on the registry, and the second one on a
\* registry of its own with the same keywords
InitSnap ==
    /\ \E keywords \in SnapRegistries :
         /\ reg = object_construct(NewObjects(keywords), TRUE).objects
         /\ sp = object_construct(NewObjects(keywords), TRUE).sp
         /\ twin = NewSnap(StreamProcessorInit(NewRegistry(keywords), TRUE).reg)
    /\ ad = NoAdapter
    /\ g = NewObservation

\* the two processors after process(ch): w the call of sp, v that of
\* twin.sp; process() never assigns self._root
SnapAfter(w, v, ch) ==
    /\ sp' = [w.sp EXCEPT !.root = sp.root]
    /\ g' = Observe(w, ch)
    /\ twin' = [twin EXCEPT !.sp = v.sp, !.src = v.src,
                            !.returned = IF v.exc = "none" THEN @ \o v.out ELSE @,
                            !.calls = @ \o v.calls,
                            !.last = "process"]

\* sp.process(ch) and twin.sp.process(ch)
SnapProcess ==
    /\ Len(g.inputs) < MaxSnapInput
    /\ \E ch \in Alphabet : \E ds \in Outcomes(Loaded(reg, sp), ch) :
         SnapAfter(process(Loaded(reg, sp), g.src, g.flushes, ch, ds),
                   process(twin.sp, twin.src, g.flushes, ch, ds), ch)
    /\ UNCHANGED <<reg, ad>>

\* a call on the registry has been made
SnapCounted(op) == twin' = [twin EXCEPT !.ops = @ + 1, !.last = op]

\* registry.register(keyword, callback)
SnapRegister ==
    /\ twin.ops < MaxOps
    /\ \E keyword \in SnapKeywords : \E callback \in SnapCallbacks :
         reg' = object_register(reg, keyword, callback)
    /\ SnapCounted("register")
    /\ UNCHANGED <<sp, ad, g>>

\* registry.deregister(keyword) and registry.deregister(keyword, callback)
SnapDeregister ==
    /\ twin.ops < MaxOps
    /\ \E keyword \in SnapKeywords : \E callback \in {None, "drops"} :
         reg' = object_deregister(reg, keyword, callback)
    /\ SnapCounted("deregister")
    /\ UNCHANGED <<sp, ad, g>>

\* registry.compile()
SnapCompile ==
    /\ twin.ops < MaxOps
    /\ reg' = object_compile(reg)
    /\ SnapCounted("compile")
    /\ UNCHANGED <<sp, ad, g>>

NextSnap == SnapProcess \/ SnapRegister \/ SnapDeregister \/ SnapCompile

SpecSnap == InitSnap /\ [][NextSnap]_vars

----------------------------------------------------------------------------
(* stream_filter: the generator sync_wrap returns.  A yield_mode and an
   item yielded are strings, written as sequences of characters. *)

ModeChar == <<"c", "h", "a", "r">>
ModeToken == <<"t", "o", "k", "e", "n">>
ModeChunk2 == <<"c", "h", "u", "n", "k", ":", "2">>
ModeInvalid == <<"i", "n", "v", "a", "l", "i", "d">>
ModeChunkNeg == <<"c", "h", "u", "n", "k", ":", "-", "1">>
ChunkPrefix == <<"c", "h", "u", "n", "k", ":">>

\* mode.startswith(prefix)
StartsWith(mode, prefix) ==
    Len(prefix) <= Len(mode) /\ SubSeq(mode, 1, Len(prefix)) = prefix

\* the decimal digits int() takes, by value: the ASCII digits and the
\* decimal digits of other scripts (those that a module can spell)
DigitsOf ==
    << {"0", "۰", "߀", "০", "૦", "௦", "೦", "෦", "໐", "႐", "០", "᧐", "᪀", "᪐", "᮰", "꣐", "꧐", "꧰", "꯰"},
       {"1", "۱", "߁", "১", "૧", "௧", "೧", "෧", "໑", "႑", "១", "᧑", "᪁", "᪑", "᮱", "꣑", "꧑", "꧱", "꯱"},
       {"2", "۲", "߂", "২", "૨", "௨", "೨", "෨", "໒", "႒", "២", "᧒", "᪂", "᪒", "᮲", "꣒", "꧒", "꧲", "꯲"},
       {"3", "۳", "߃", "৩", "૩", "௩", "೩", "෩", "໓", "႓", "៣", "᧓", "᪃", "᪓", "᮳", "꣓", "꧓", "꧳", "꯳"},
       {"4", "۴", "߄", "৪", "૪", "௪", "೪", "෪", "໔", "႔", "៤", "᧔", "᪄", "᪔", "᮴", "꣔", "꧔", "꧴", "꯴"},
       {"5", "۵", "߅", "৫", "૫", "௫", "೫", "෫", "໕", "႕", "៥", "᧕", "᪅", "᪕", "᮵", "꣕", "꧕", "꧵", "꯵"},
       {"6", "۶", "߆", "৬", "૬", "௬", "೬", "෬", "໖", "႖", "៦", "᧖", "᪆", "᪖", "᮶", "꣖", "꧖", "꧶", "꯶"},
       {"7", "۷", "߇", "৭", "૭", "௭", "೭", "෭", "໗", "႗", "៧", "᧗", "᪇", "᪗", "᮷", "꣗", "꧗", "꧷", "꯷"},
       {"8", "۸", "߈", "৮", "૮", "௮", "೮", "෮", "໘", "႘", "៨", "᧘", "᪈", "᪘", "᮸", "꣘", "꧘", "꧸", "꯸"},
       {"9", "۹", "߉", "৯", "૯", "௯", "೯", "෯", "໙", "႙", "៩", "᧙", "᪉", "᪙", "᮹", "꣙", "꧙", "꧹", "꯹"} >>

Digits == UNION {DigitsOf[v + 1] : v \in 0..9}

\* the value of a decimal digit
DigitValue(c) == CHOOSE v \in 0..9 : c \in DigitsOf[v + 1]

RECURSIVE DigitsValue(_)
DigitsValue(ds) ==
    IF ds = <<>> THEN 0 ELSE 10 * DigitsValue(Front(ds)) + DigitValue(Last(ds))

\* the characters int() strips from both ends of its argument: blank, tab,
\* line feed, vertical tab, form feed, carriage return, next line (U+0085),
\* no-break space (U+00A0), ogham space mark (U+1680)
Blanks == {" ", "\t", "\n", "", "\f", "\r", "", " ", " "}

\* text.strip()
RECURSIVE Strip(_)
Strip(text) ==
    IF text = <<>> THEN text
    ELSE IF text[1] \in Blanks THEN Strip(Tail(text))
    ELSE IF Last(text) \in Blanks THEN Strip(Front(text))
    ELSE text

\* the digits of a number written with underscores
RECURSIVE WithoutUnderscores(_)
WithoutUnderscores(body) ==
    IF body = <<>> THEN <<>>
    ELSE (IF body[1] = "_" THEN <<>> ELSE <<body[1]>>)
         \o WithoutUnderscores(Tail(body))

\* digits, with single underscores between them
IsNumber(body) ==
    /\ body # <<>>
    /\ body[1] \in Digits
    /\ Last(body) \in Digits
    /\ \A k \in 1..Len(body) : body[k] \in Digits \cup {"_"}
    /\ \A k \in 1..(Len(body) - 1) : ~(body[k] = "_" /\ body[k + 1] = "_")

\* int(text): blanks around the number are stripped; then an optional sign
\* and digits, single underscores allowed between digits; ok is FALSE
\* where int raises ValueError
ParseIntStripped(text) ==
    IF IsNumber(IF text # <<>> /\ text[1] \in {"+", "-"} THEN Tail(text) ELSE text)
    THEN [ok |-> TRUE,
          value |-> IF text[1] = "-"
                    THEN 0 - DigitsValue(WithoutUnderscores(Tail(text)))
                    ELSE IF text[1] = "+"
                    THEN DigitsValue(WithoutUnderscores(Tail(text)))
                    ELSE DigitsValue(WithoutUnderscores(text))]
    ELSE [ok |-> FALSE, value |-> 0]

ParseInt(text) == ParseIntStripped(Strip(text))

\* slices of one character whatever the size
ChunksOfOne(chars, size) == [k \in 1..Len(chars) |-> <<chars[k]>>]

\* ''.join(chars[i:i+size]) for i in range(0, len(chars), size), size > 0
RECURSIVE Chunks(_, _)
Chunks(chars, size) ==
    IF chars = <<>> THEN <<>>
    ELSE IF Len(chars) <= size THEN <<chars>>
    ELSE <<SubSeq(chars, 1, size)>> \o Chunks(SubSeq(chars, size + 1, Len(chars)), size)

\* _repack(chars, mode), iterated to its end: the items it yields, or the
\* ValueError it raises (before any item)
_repack(chars, mode) ==
    IF mode = ModeChar
    THEN [err |-> FALSE, items |-> [k \in 1..Len(chars) |-> <<chars[k]>>]]
    ELSE IF mode = ModeToken
    THEN [err |-> FALSE, items |-> <<chars>>]
    ELSE IF StartsWith(mode, ChunkPrefix)
    THEN LET size == ParseInt(SubSeq(mode, Len(ChunkPrefix) + 1, Len(mode)))
         IN  IF ~size.ok \/ size.value = 0 THEN [err |-> TRUE, items |-> <<>>]
             ELSE IF size.value < 0 THEN [err |-> FALSE, items |-> <<>>]
             ELSE [err |-> FALSE, items |-> Chunks(chars, size.value)]
    ELSE [err |-> TRUE, items |-> <<>>]

\* the yield modes of the runs
YieldModes == {ModeChar, ModeToken, ModeChunk2, ModeInvalid, ModeChunkNeg}

\* what the decorator is applied to
TargetKinds == {"generator", "asyncgen", "function"}

\* the tokens a producer yields
Tokens == {<<>>, <<"b">>, <<"a", "b">>, <<"a", "a", "b">>}

\* the registries of the adapter runs
AdapterRegistries ==
    { <<>>,
      <<KwEntry(<<"a", "b">>, <<"any">>)>>,
      <<KwEntry(<<"b">>, <<"edit">>), KwEntry(<<"a", "b">>, <<"rewrite">>)>>,
      <<KwEntry(<<"b">>, <<"segment", "stop">>)>> }

(* The generator's frame: pc is where it stands ("fetch": about to ask the
   producer for a token; "chars": in the loop over the token's characters,
   token[i] the next one; "items": suspended at the yield of the loop over
   a token's items, more of them to come; "rest": suspended at the yield of
   the loop over the items of the final flush; "done": returned; "failed":
   left by an exception), and token, i, out_chars are its locals.  pending
   are the items the loop it is suspended in has yet to yield, after is
   where it stands once it leaves that loop.  Observed of it: yielded, the
   items it has yielded; asked, how often it has asked the producer for a
   token; mark, how many characters the processor had returned when the
   current token was fetched; why, how it ended; target, what the
   decorator was applied to. *)
NoLoop == [pc |-> "", why |-> ""]

NewAdapter(yield_mode) ==
    [pc |-> "fetch", yield_mode |-> yield_mode, token |-> <<>>, i |-> 1,
     out_chars |-> <<>>, yielded |-> <<>>, asked |-> 0, mark |-> 0, ymark |-> 0,
     why |-> "", target |-> "generator", pending |-> <<>>, after |-> NoLoop]

\* decorator(fn): async_wrap for an async generator function, sync_wrap for
\* a generator function (the same statements), TypeError for anything else
decorator(target, yield_mode) ==
    IF target \in {"asyncgen", "generator"}
    THEN [NewAdapter(yield_mode) EXCEPT !.target = target]
    ELSE [NewAdapter(yield_mode) EXCEPT !.target = target, !.pc = "failed",
                                       !.why = "TypeError"]

InitAdapter ==
    /\ \E keywords \in AdapterRegistries : reg = compile(NewRegistry(keywords))
    /\ sp = NewProcessor(reg, TRUE)
    /\ \E m \in YieldModes : \E t \in TargetKinds : ad = decorator(t, m)
    /\ g = NewObservation
    /\ twin = NoTwin

\* for token in fn(): the producer yields a token
AFetch ==
    /\ ad.pc = "fetch"
    /\ ad.asked < MaxTokens
    /\ \E t \in Tokens :
         ad' = [ad EXCEPT !.pc = "chars", !.token = t, !.i = 1, !.out_chars = <<>>,
                          !.asked = @ + 1, !.mark = Len(g.returned),
                          !.ymark = Len(ad.yielded)]
    /\ UNCHANGED <<reg, sp, g, twin>>

\* a handler that yields what the token produced before it returns
OnHaltYielding(a) ==
    [a EXCEPT !.pc = "done", !.why = "halt",
              !.yielded = @ \o _repack(a.out_chars, ModeChar).items]

\* except StreamHalted: return
OnHalt(a) == [a EXCEPT !.pc = "done", !.why = "halt"]

\* out_chars.extend(sp.process(ch)) for the next character of the token
AChar ==
    /\ ad.pc = "chars"
    /\ ad.i <= Len(ad.token)
    /\ \E ds \in Outcomes(sp, ad.token[ad.i]) :
         LET w == process(sp, g.src, g.flushes, ad.token[ad.i], ds)
         IN  /\ sp' = w.sp
             /\ g' = Observe(w, ad.token[ad.i])
             /\ ad' = IF w.exc = "halt" THEN OnHalt(ad)
                      ELSE IF w.exc = "error"
                      THEN [ad EXCEPT !.pc = "failed", !.why = "error"]
                      ELSE [ad EXCEPT !.out_chars = @ \o w.out, !.i = @ + 1]
    /\ UNCHANGED <<reg, twin>>

\* a loop over the items that stops one short
YieldItemsButLast(a, r) ==
    IF r.err THEN [a EXCEPT !.pc = "failed", !.why = "ValueError"]
    ELSE [a EXCEPT !.yielded = @ \o Front(r.items)]

\* the yields of a generator that iterates _repack(chars, mode)
YieldItems(a, r) ==
    IF r.err THEN [a EXCEPT !.pc = "failed", !.why = "ValueError"]
    ELSE [a EXCEPT !.yielded = @ \o r.items]

\* for item in _repack(...): yield item -- the generator is suspended at
\* each yield.  run is the frame had the loop, entered in the frame before,
\* run to its end; the generator has yielded the first item and holds the
\* others.  loop is "items" for the loop of a token, from whose last yield
\* the generator goes on to ask the producer, and "rest" for the loop after
\* the final flush, from whose last yield it goes on to return.
Suspended(before, run, loop) ==
    IF run.pc = "failed" \/ Len(run.yielded) = Len(before.yielded) THEN run
    ELSE IF loop = "items" /\ Len(run.yielded) = Len(before.yielded) + 1 THEN run
    ELSE [run EXCEPT !.yielded = SubSeq(@, 1, Len(before.yielded) + 1),
                     !.pending = SubSeq(run.yielded, Len(before.yielded) + 2,
                                        Len(run.yielded)),
                     !.pc = loop,
                     !.why = before.why,
                     !.after = [pc |-> run.pc, why |-> run.why]]

\* the consumer asks for the next item of a generator suspended at such a
\* yield: the loop yields its next item, or is left
Resumed(a) ==
    IF a.pending = <<>>
    THEN [a EXCEPT !.pc = a.after.pc, !.why = a.after.why, !.after = NoLoop]
    ELSE IF a.pc = "items" /\ Len(a.pending) = 1
    THEN [a EXCEPT !.yielded = Append(@, a.pending[1]), !.pending = <<>>,
                   !.pc = a.after.pc, !.why = a.after.why, !.after = NoLoop]
    ELSE [a EXCEPT !.yielded = Append(@, Head(a.pending)),
                   !.pending = Tail(@)]

\* out_chars without the in-token flush
TokenItemUnflushed(a, f) == a.out_chars

\* out_chars.extend(sp.flush()): the list afterwards, which is the item
\* ''.join(out_chars) yielded
TokenItem(a, f) == a.out_chars \o f.out

\* the end of the loop over the token's characters: in token mode the
\* in-token flush and one yield, otherwise the loop over the items of
\* _repack up to its first yield
AEndToken ==
    /\ ad.pc = "chars"
    /\ ad.i > Len(ad.token)
    /\ IF ad.yield_mode = ModeToken
       THEN LET f == flush(sp)
            IN  /\ sp' = f.sp
                /\ g' = ObserveFlush(f)
                /\ ad' = [ad EXCEPT !.out_chars = TokenItem(ad, f),
                                    !.yielded = Append(@, TokenItem(ad, f)),
                                    !.pc = "fetch"]
       ELSE /\ ad' = LET a == YieldItems(ad, _repack(ad.out_chars, ad.yield_mode))
                     IN  IF a.pc = "failed" THEN a
                         ELSE Suspended(ad, [a EXCEPT !.pc = "fetch"], "items")
            /\ UNCHANGED <<sp, g>>
    /\ UNCHANGED <<reg, twin>>

\* the producer is exhausted: token mode returns; the other modes flush and
\* enter the loop over what is left, if anything, up to its first yield
AExhausted ==
    /\ ad.pc = "fetch"
    /\ IF ad.yield_mode = ModeToken
       THEN /\ ad' = [ad EXCEPT !.pc = "done", !.why = "exhausted", !.asked = @ + 1]
            /\ UNCHANGED <<sp, g>>
       ELSE LET f == flush(sp)
                a == IF f.out # <<>>
                     THEN YieldItems(ad, _repack(f.out, ad.yield_mode)) ELSE ad
            IN  /\ sp' = f.sp
                /\ g' = ObserveFlush(f)
                /\ ad' = IF a.pc = "failed" THEN [a EXCEPT !.asked = @ + 1]
                         ELSE Suspended([ad EXCEPT !.asked = @ + 1],
                                        [a EXCEPT !.pc = "done",
                                                  !.why = "exhausted",
                                                  !.asked = @ + 1], "rest")
    /\ UNCHANGED <<reg, twin>>

\* the consumer asks a generator suspended in a loop over items for the
\* next one
AResume ==
    /\ ad.pc \in {"items", "rest"}
    /\ ad' = Resumed(ad)
    /\ UNCHANGED <<reg, sp, g, twin>>

NextAdapter == AFetch \/ AChar \/ AEndToken \/ AExhausted \/ AResume

SpecAdapter == InitAdapter /\ [][NextAdapter]_vars

----------------------------------------------------------------------------
(* stream_filter on a generator function and on an async generator function:
   sync_wrap and async_wrap driven by producers that yield the same tokens,
   their callbacks returning the same decisions.  Each generator has its own
   consumer; one step takes one generator from a request of its consumer to
   its next yield, its return or its exception: an event of its producer (a
   token, the end of the stream, an exception), or the next item of the
   loop over items it is suspended in. *)

\* out_chars.extend(...): what the call returned goes before what the rest
\* of the token adds; n counts the characters whose call returned
Extended(out, r) == [r EXCEPT !.out_chars = out \o @, !.n = @ + 1]

\* for ch in token: out_chars.extend(sp.process(ch)), the callbacks invoked
\* for the k-th character producing dss[k]; stops at the first exception
RECURSIVE ProcessToken(_, _, _, _)
\* the loop once process() has returned or raised (w) for the first character
ProcessRest(w, token, dss) ==
    IF w.exc # "none"
    THEN [sp |-> w.sp, src |-> w.src, out_chars |-> <<>>, exc |-> w.exc, n |-> 0]
    ELSE Extended(w.out, ProcessToken(w.sp, w.src, Tail(token), Tail(dss)))

ProcessToken(s, src, token, dss) ==
    IF token = <<>>
    THEN [sp |-> s, src |-> src, out_chars |-> <<>>, exc |-> "none", n |-> 0]
    ELSE ProcessRest(process(s, src, 0, Head(token), Head(dss)), token, dss)

\* the outcomes the callbacks can produce while a token is processed
RECURSIVE Scripts(_, _, _)
\* those that start with ds, w being the first character's process() call
ScriptsAfter(w, token, ds) ==
    IF w.exc # "none" THEN {<<ds>>}
    ELSE {<<ds>> \o rest : rest \in Scripts(w.sp, w.src, Tail(token))}

Scripts(s, src, token) ==
    IF token = <<>> THEN {<<>>}
    ELSE UNION { ScriptsAfter(process(s, src, 0, Head(token), ds), token, ds)
               : ds \in Outcomes(s, Head(token)) }

\* a wrapper's state: its frame a, its processor and the origin of the
\* buffer's characters
Wrap(a, s, src) == [ad |-> a, sp |-> s, src |-> src]

\* the generator is left by an exception that is not handled
Propagate(a, e) == [a EXCEPT !.pc = "failed", !.why = e]

\* sync_wrap, token mode: out_chars.extend(sp.flush()); yield ''.join(out_chars)
sync_token_item(b, f) ==
    Wrap([b EXCEPT !.out_chars = TokenItem(b, f),
                   !.yielded = Append(@, TokenItem(b, f))],
         f.sp, <<>>)

\* sync_wrap: what follows the loop over the token's characters, r being
\* how that loop ended
sync_token_done(b, r) ==
    IF r.exc = "halt" THEN Wrap(OnHalt(b), r.sp, r.src)
    ELSE IF r.exc = "error" THEN Wrap(Propagate(b, "error"), r.sp, r.src)
    ELSE IF b.yield_mode = ModeToken THEN sync_token_item(b, flush(r.sp))
    ELSE Wrap(YieldItems(b, _repack(r.out_chars, b.yield_mode)), r.sp, r.src)

\* the frame after the loop over the token's characters ended as r: the
\* locals out_chars and i (the character it stands at)
AfterChars(b, r) == [b EXCEPT !.out_chars = r.out_chars, !.i = r.n + 1]

\* the frame that has fetched the token
FetchedToken(a, token) ==
    [a EXCEPT !.asked = @ + 1, !.token = token, !.i = 1, !.out_chars = <<>>]

\* sync_wrap, the token fetched: the loop over its characters ended as r
sync_token_chars(b, r) == sync_token_done(AfterChars(b, r), r)

\* sync_wrap: the body of "for token in fn()" for one token
sync_wrap_token(a, s, src, token, dss) ==
    sync_token_chars(FetchedToken(a, token), ProcessToken(s, src, token, dss))

\* sync_wrap: rem = sp.flush(); if rem: the yields of _repack(rem, yield_mode)
sync_final_flush(done, f) ==
    Wrap(IF f.out # <<>> THEN YieldItems(done, _repack(f.out, done.yield_mode))
         ELSE done,
         f.sp, <<>>)

\* sync_wrap: the producer is exhausted
sync_wrap_end(a, s, src) ==
    IF a.yield_mode = ModeToken
    THEN Wrap([a EXCEPT !.asked = @ + 1, !.pc = "done", !.why = "exhausted"], s, src)
    ELSE sync_final_flush([a EXCEPT !.asked = @ + 1, !.pc = "done", !.why = "exhausted"],
                          flush(s))

\* sync_wrap: the producer raises e; nothing encloses the for statement
sync_wrap_throw(a, s, src, e) ==
    Wrap(Propagate([a EXCEPT !.asked = @ + 1], e), s, src)

\* a handler of async_wrap that goes on to the yields of the token
async_on_haltContinuing(a) == a

\* async_wrap: except StreamHalted: return (inner and outer)
async_on_halt(a) == [a EXCEPT !.pc = "done", !.why = "halt"]

\* async_wrap: for item in _repack(chars, yield_mode): yield item
async_yield_items(a, r) ==
    IF r.err THEN Propagate(a, "ValueError")
    ELSE [a EXCEPT !.yielded = @ \o r.items]

\* async_wrap, token mode: out_chars.extend(sp.flush()); yield ''.join(out_chars)
async_token_item(h, f) ==
    Wrap([h EXCEPT !.out_chars = @ \o f.out,
                   !.yielded = Append(@, h.out_chars \o f.out)], f.sp, <<>>)

\* async_wrap: what follows the inner try, h being the frame its handler
\* has left (returned, on a halt)
async_token_done(h, r) ==
    IF r.exc = "halt" /\ h.pc = "done" THEN Wrap(h, r.sp, r.src)
    ELSE IF r.exc = "error" THEN Wrap(Propagate(h, "error"), r.sp, r.src)
    ELSE IF h.yield_mode = ModeToken THEN async_token_item(h, flush(r.sp))
    ELSE Wrap(async_yield_items(h, _repack(r.out_chars, h.yield_mode)), r.sp, r.src)

\* async_wrap: the inner try around the loop over the token's characters
async_token_try(b, r) ==
    async_token_done(IF r.exc = "halt" THEN async_on_halt(b) ELSE b, r)

\* async_wrap, the token fetched: the loop over its characters ended as r
async_token_chars(b, r) == async_token_try(AfterChars(b, r), r)

\* async_wrap: the body of "async for token in fn()" for one token
async_wrap_token(a, s, src, token, dss) ==
    async_token_chars(FetchedToken(a, token), ProcessToken(s, src, token, dss))

\* async_wrap: rem = sp.flush(); if rem: the yields of _repack(rem, yield_mode)
async_final_flush(done, f) ==
    Wrap(IF f.out # <<>> THEN async_yield_items(done, _repack(f.out, done.yield_mode))
         ELSE done,
         f.sp, <<>>)

\* async_wrap: the producer is exhausted
async_wrap_end(a, s, src) ==
    IF a.yield_mode = ModeToken
    THEN Wrap([a EXCEPT !.asked = @ + 1, !.pc = "done", !.why = "exhausted"], s, src)
    ELSE async_final_flush([a EXCEPT !.asked = @ + 1, !.pc = "done", !.why = "exhausted"],
                           flush(s))

\* async_wrap: the producer raises e inside the outer try
async_wrap_throw(a, s, src, e) ==
    IF e = "StreamHalted" THEN Wrap(async_on_halt([a EXCEPT !.asked = @ + 1]), s, src)
    ELSE Wrap(Propagate([a EXCEPT !.asked = @ + 1], e), s, src)

\* the exceptions a producer raises
ProducerErrors == {"StreamHalted", "RuntimeError"}

\* what a producer does when it is asked: it yields a token (dss being what
\* the callbacks do while the token is processed), is exhausted, or raises
TokenEvent(token, dss) == [kind |-> "token", token |-> token, dss |-> dss, e |-> ""]

EndEvent == [kind |-> "end", token |-> <<>>, dss |-> <<>>, e |-> ""]

ThrowEvent(e) == [kind |-> "throw", token |-> <<>>, dss |-> <<>>, e |-> e]

\* the wrapper x, whose loop over the items ran to its end, suspended at
\* the first yield of that loop instead
WrapSuspended(before, x, loop) == [x EXCEPT !.ad = Suspended(before, @, loop)]

\* sync_wrap from the moment it asks its producer to its next yield, its
\* return or its exception
sync_wrap_event(a, s, src, ev) ==
    IF ev.kind = "token"
    THEN WrapSuspended(a, sync_wrap_token(a, s, src, ev.token, ev.dss), "items")
    ELSE IF ev.kind = "end"
    THEN WrapSuspended(a, sync_wrap_end(a, s, src), "rest")
    ELSE sync_wrap_throw(a, s, src, ev.e)

\* async_wrap likewise
async_wrap_event(a, s, src, ev) ==
    IF ev.kind = "token"
    THEN WrapSuspended(a, async_wrap_token(a, s, src, ev.token, ev.dss), "items")
    ELSE IF ev.kind = "end"
    THEN WrapSuspended(a, async_wrap_end(a, s, src), "rest")
    ELSE async_wrap_throw(a, s, src, ev.e)

\* the second wrapper: async_wrap with its own processor and its own
\* consumer; owed is the event its producer has yet to repeat after the
\* producer of sync_wrap
NewBoth(r, yield_mode) ==
    [used |-> TRUE, ad |-> decorator("asyncgen", yield_mode),
     sp |-> NewProcessor(r, TRUE), src |-> <<>>, thrown |-> FALSE,
     owed |-> <<>>]

InitBoth ==
    /\ \E keywords \in AdapterRegistries : reg = compile(NewRegistry(keywords))
    /\ sp = NewProcessor(reg, TRUE)
    /\ g = NewObservation
    /\ \E m \in YieldModes :
         /\ ad = decorator("generator", m)
         /\ twin = NewBoth(reg, m)

\* what is observed of the run: here the origin of the buffer's characters
ObserveWrap(x) == [g EXCEPT !.src = x.src]

\* sync_wrap has taken the event ev of its producer and stands as x; the
\* producer of async_wrap owes the same event
SyncAfter(x, ev) ==
    /\ ad' = x.ad
    /\ sp' = x.sp
    /\ g' = ObserveWrap(x)
    /\ twin' = [twin EXCEPT !.owed = <<ev>>,
                            !.thrown = @ \/ ev.kind = "throw"]

\* sync_wrap asks its producer, which is as far as the other one
SyncAsks == ad.pc = "fetch" /\ twin.owed = <<>>

\* the producer of sync_wrap yields a token
SyncToken ==
    /\ SyncAsks
    /\ ad.asked < MaxTokens
    /\ \E token \in Tokens : \E dss \in Scripts(sp, g.src, token) :
         SyncAfter(sync_wrap_event(ad, sp, g.src, TokenEvent(token, dss)),
                   TokenEvent(token, dss))
    /\ UNCHANGED reg

\* the producer of sync_wrap is exhausted
SyncEnd ==
    /\ SyncAsks
    /\ SyncAfter(sync_wrap_event(ad, sp, g.src, EndEvent), EndEvent)
    /\ UNCHANGED reg

\* the producer of sync_wrap raises
SyncThrow ==
    /\ SyncAsks
    /\ \E e \in ProducerErrors :
         SyncAfter(sync_wrap_event(ad, sp, g.src, ThrowEvent(e)), ThrowEvent(e))
    /\ UNCHANGED reg

\* the consumer of sync_wrap asks for the next item of the loop the
\* generator is suspended in
SyncResume ==
    /\ ad.pc \in {"items", "rest"}
    /\ ad' = Resumed(ad)
    /\ UNCHANGED <<reg, sp, g, twin>>

\* async_wrap stands as y after the event its producer owed
AsyncAfter(y) ==
    twin' = [twin EXCEPT !.ad = y.ad, !.sp = y.sp, !.src = y.src,
                         !.owed = <<>>]

\* async_wrap asks its producer, which does what the other one did
AsyncEvent ==
    /\ twin.ad.pc = "fetch"
    /\ twin.owed # <<>>
    /\ AsyncAfter(async_wrap_event(twin.ad, twin.sp, twin.src, twin.owed[1]))
    /\ UNCHANGED <<reg, sp, ad, g>>

\* the consumer of async_wrap asks for the next item of the loop the
\* generator is suspended in
AsyncResume ==
    /\ twin.ad.pc \in {"items", "rest"}
    /\ twin' = [twin EXCEPT !.ad = Resumed(@)]
    /\ UNCHANGED <<reg, sp, ad, g>>

NextBoth ==
    SyncToken \/ SyncEnd \/ SyncThrow \/ SyncResume \/ AsyncEvent \/ AsyncResume

SpecBoth == InitBoth /\ [][NextBoth]_vars

----------------------------------------------------------------------------
(* llm_stream_manager.StreamManager: rules applied to a stream of tokens.
   A token and a keyword are sequences of characters.  An Optional value is
   a sequence of at most one element, None being the empty one.  A callback
   is named by a string; what it returns for a token is a choice among
   ManagerReturns(cb), a pair (action, repl), or it raises. *)

\* the number of register and deregister calls made on a manager
MaxRuleCalls == 2

ManagerKeywords == {<<>>, <<"a">>, <<"a", "b">>}

ManagerTokens == {<<"a">>, <<"a", "b">>}

ManagerCallbacks == {"reviser", "censor"}

Nothing == <<>>

Some(x) == <<x>>

\* what a callback hands back: (action, repl)
Result(action, repl) == [action |-> action, repl |-> repl]

\* the callback raises instead of returning
Raised == Result("raise", Nothing)

ManagerReturns(cb) ==
    IF cb = "reviser"
    THEN {Result("REPLACE", Some(<<"b">>)), Result("REPLACE", Some(<<>>)),
          Result("REPLACE", Nothing), Result("PASS_TOKEN", Nothing)}
    ELSE {Result("DROP_TOKEN", Nothing), Result("HALT", Nothing),
          Result("PASS_TOKEN", Some(<<"b">>)), Raised}

\* StreamHistory(): three empty lists; with record_history False the manager
\* holds None instead and nothing is recorded
ManagerHistory(record_history) ==
    [present |-> record_history, inputs |-> <<>>, outputs |-> <<>>,
     actions |-> <<>>]

\* if self._history: self._history.record_input(tok)
history_record_input(h, tok) ==
    IF h.present THEN [h EXCEPT !.inputs = Append(@, tok)] ELSE h

\* if self._history: self._history.record_output(final)
history_record_output(h, tok) ==
    IF h.present THEN [h EXCEPT !.outputs = Append(@, tok)] ELSE h

\* if self._history: self._history.record_action(tok, action)
history_record_action(h, tok, action) ==
    IF h.present THEN [h EXCEPT !.actions = Append(@, <<tok, action>>)] ELSE h

\* StreamManager(record_history=...)
NewManager(record_history) ==
    [rules |-> <<>>, history |-> ManagerHistory(record_history)]

\* StreamManager.register(keyword, cb)
manager_register(m, keyword, cb) ==
    [m EXCEPT !.rules = Append(@, [kw |-> keyword, cb |-> cb])]

KeepsRule(r, keyword, cb) ==
    IF cb = None THEN r.kw # keyword ELSE ~(r.kw = keyword /\ r.cb = cb)

RECURSIVE RulesKept(_, _, _)
RulesKept(rules, keyword, cb) ==
    IF rules = <<>> THEN <<>>
    ELSE (IF KeepsRule(Head(rules), keyword, cb) THEN <<Head(rules)>> ELSE <<>>)
         \o RulesKept(Tail(rules), keyword, cb)

\* StreamManager.deregister(keyword, cb=None)
manager_deregister(m, keyword, cb) ==
    [m EXCEPT !.rules = RulesKept(@, keyword, cb)]

\* kw in tok
Contains(kw, tok) ==
    \E i \in 0..(Len(tok) - Len(kw)) : SubSeq(tok, i + 1, i + Len(kw)) = kw

\* the rules whose keyword is in the token, by index
Matching(rules, tok) == {i \in 1..Len(rules) : Contains(rules[i].kw, tok)}

\* a loop that goes on to the last rule whose keyword is in the token
LastRule(rules, tok) ==
    IF Matching(rules, tok) = {} THEN 0
    ELSE CHOOSE i \in Matching(rules, tok) :
             \A j \in Matching(rules, tok) : j <= i

\* for kw, cb in self._rules: if kw in tok: ... break -- the rule the loop
\* stops at, 0 when it runs to the end
FirstRule(rules, tok) ==
    IF Matching(rules, tok) = {} THEN 0
    ELSE CHOOSE i \in Matching(rules, tok) :
             \A j \in Matching(rules, tok) : i <= j

\* the generator after one turn of its loop: the manager's history, what the
\* turn yielded, whether the generator goes on, and the rule it called
Turn(h, yielded, pc, called) ==
    [history |-> h, yielded |-> yielded, pc |-> pc, called |-> called]

\* the turn from the callback's return on: i is the rule called, res what
\* its callback did, h the history after record_input
manager_decided(h, tok, i, res) ==
    IF res.action = "raise" THEN Turn(h, <<>>, "raised", i)
    ELSE IF res.action = "DROP_TOKEN"
    THEN Turn(history_record_action(h, tok, res.action), <<>>, "running", i)
    ELSE IF res.action = "HALT"
    THEN Turn(history_record_action(h, tok, res.action), <<>>, "done", i)
    ELSE IF res.action = "REPLACE" /\ res.repl # Nothing
    THEN Turn(history_record_output(
                  history_record_action(h, tok, res.action), res.repl[1]),
              <<res.repl[1]>>, "running", i)
    ELSE Turn(history_record_output(
                  history_record_action(h, tok, res.action), tok),
              <<tok>>, "running", i)

\* StreamManager.process: one turn of "for tok in tokens" on the token tok;
\* res is what the callback does if one is called
manager_process(m, tok, res) ==
    IF FirstRule(m.rules, tok) = 0
    THEN Turn(history_record_output(history_record_input(m.history, tok), tok),
              <<tok>>, "running", 0)
    ELSE manager_decided(history_record_input(m.history, tok), tok,
                         FirstRule(m.rules, tok), res)

\* the same from the callback's return on, in process_async
manager_decided_async(h, tok, i, res) ==
    IF res.action = "raise" THEN Turn(h, <<>>, "raised", i)
    ELSE IF res.action = "DROP_TOKEN"
    THEN Turn(history_record_action(h, tok, res.action), <<>>, "running", i)
    ELSE IF res.action = "HALT"
    THEN Turn(history_record_action(h, tok, res.action), <<>>, "done", i)
    ELSE IF res.action = "REPLACE" /\ res.repl # Nothing
    THEN Turn(history_record_output(
                  history_record_action(h, tok, res.action), res.repl[1]),
              <<res.repl[1]>>, "running", i)
    ELSE Turn(history_record_output(
                  history_record_action(h, tok, res.action), tok),
              <<tok>>, "running", i)

\* StreamManager.process_async: one turn of "async for tok in tokens"
manager_process_async(m, tok, res) ==
    IF FirstRule(m.rules, tok) = 0
    THEN Turn(history_record_output(history_record_input(m.history, tok), tok),
              <<tok>>, "running", 0)
    ELSE manager_decided_async(history_record_input(m.history, tok), tok,
                               FirstRule(m.rules, tok), res)

\* what the callback of the rule called may do; a turn that calls none has
\* no callback result
TurnResults(rules, tok) ==
    IF FirstRule(rules, tok) = 0 THEN {Result("PASS_TOKEN", Nothing)}
    ELSE ManagerReturns(rules[FirstRule(rules, tok)].cb)

\* One manager drives process(tokens), a second one, with the same rules,
\* process_async(tokens); reg is the first manager, ad the frame of its
\* generator, g what its consumer and its source saw (the tokens consumed,
\* the tokens yielded, and the last turn of the loop: its token, how many
\* rules held a keyword of it, the rule it called, what the callback did,
\* what it yielded),
\* twin the second manager with its generator.
NoTurn ==
    [tok |-> <<>>, found |-> 0, called |-> 0,
     res |-> Result("PASS_TOKEN", Nothing), yielded |-> <<>>, pc |-> "none"]

InitManager ==
    \E record_history \in BOOLEAN :
        /\ reg = NewManager(record_history)
        /\ sp = NoProcessor
        /\ ad = [pc |-> "running"]
        /\ g = [calls |-> 0, consumed |-> <<>>, yielded |-> <<>>,
                last |-> NoTurn]
        /\ twin = [used |-> TRUE, manager |-> NewManager(record_history),
                   pc |-> "running", yielded |-> <<>>]

\* manager.register(keyword, cb) on both managers
ManagerRegister ==
    /\ g.calls < MaxRuleCalls
    /\ \E keyword \in ManagerKeywords : \E cb \in ManagerCallbacks :
         /\ reg' = manager_register(reg, keyword, cb)
         /\ twin' = [twin EXCEPT
                       !.manager = manager_register(@, keyword, cb)]
    /\ g' = [g EXCEPT !.calls = @ + 1]
    /\ UNCHANGED <<sp, ad>>

\* manager.deregister(keyword, cb) on both managers
ManagerDeregister ==
    /\ g.calls < MaxRuleCalls
    /\ \E keyword \in ManagerKeywords : \E cb \in ManagerCallbacks \cup {None} :
         /\ reg' = manager_deregister(reg, keyword, cb)
         /\ twin' = [twin EXCEPT
                       !.manager = manager_deregister(@, keyword, cb)]
    /\ g' = [g EXCEPT !.calls = @ + 1]
    /\ UNCHANGED <<sp, ad>>

\* the state after both generators ran one turn on tok: x is the turn of
\* process, y the turn of process_async
ManagerAfter(tok, res, x, y) ==
    /\ reg' = [reg EXCEPT !.history = x.history]
    /\ ad' = [pc |-> x.pc]
    /\ g' = [g EXCEPT !.consumed = Append(@, tok),
                      !.yielded = @ \o x.yielded,
                      !.last = [tok |-> tok,
                                found |-> Cardinality(Matching(reg.rules, tok)),
                                called |-> x.called, res |-> res,
                                yielded |-> x.yielded, pc |-> x.pc]]
    /\ twin' = [twin EXCEPT !.manager.history = y.history,
                            !.pc = y.pc,
                            !.yielded = @ \o y.yielded]

\* the sources hand the next token to the two generators, whose callbacks
\* do the same
ManagerToken ==
    /\ ad.pc = "running" \/ twin.pc = "running"
    /\ Len(g.consumed) < MaxTokens
    /\ \E tok \in ManagerTokens : \E res \in TurnResults(reg.rules, tok) :
         ManagerAfter(tok, res,
                      IF ad.pc = "running" THEN manager_process(reg, tok, res)
                      ELSE Turn(reg.history, <<>>, ad.pc, 0),
                      IF twin.pc = "running"
                      THEN manager_process_async(twin.manager, tok, res)
                      ELSE Turn(twin.manager.history, <<>>, twin.pc, 0))
    /\ UNCHANGED sp

\* the sources are exhausted: the loops end, the generators return
ManagerEnd ==
    /\ ad.pc = "running" \/ twin.pc = "running"
    /\ ad' = [pc |-> IF ad.pc = "running" THEN "done" ELSE ad.pc]
    /\ twin' = [twin EXCEPT !.pc = IF @ = "running" THEN "done" ELSE @]
    /\ UNCHANGED <<reg, sp, g>>

NextManager ==
    ManagerRegister \/ ManagerDeregister \/ ManagerToken \/ ManagerEnd

SpecManager == InitManager /\ [][NextManager]_vars

----------------------------------------------------------------------------
(* Properties of the processor, over the direct runs (Spec) *)

Calls == Range(g.calls)

\* the run consists of process() calls followed by one flush()
Flushed == g.flushes = 1 /\ g.last.op = "flush"

\* C1 - Identity when nothing rewrites: while every invoked callback has
\* returned PASS or nothing (or none was invoked), what process() returned
\* so far followed by the buffer is the input consumed so far, and after the
\* closing flush() what was returned is exactly the input.
C1_Identity ==
    (\A c \in Calls : c.dec \in {passthrough, ReturnsNone})
    => /\ g.flushes = 0 => g.returned \o sp.buffer = g.inputs
       /\ Flushed => g.returned = g.inputs

C1_Witness ==
    /\ \A c \in Calls : c.dec \in {passthrough, ReturnsNone}
    /\ \E c \in Calls : c.dec = passthrough
    /\ \E c \in Calls : c.dec = ReturnsNone
    /\ Flushed
    /\ Len(g.inputs) >= 3
    /\ g.last.out # <<>>

\* input positions a..b in order
Positions(a, b) == [i \in 1..(b - a + 1) |-> a + i - 1]

\* the first callback of a match dispatched with no flush() before it finds
\* the keyword's characters in the buffer: the L last characters of the
\* buffer are the input characters at positions p-L+1..p
KeywordBuffered(c) ==
    /\ Len(c.kw) <= Len(c.src)
    /\ TakeLast(c.src, Len(c.kw)) = Positions(c.pos - Len(c.kw) + 1, c.pos)
    /\ TakeLast(c.buffer, Len(c.kw)) = c.kw

\* no process() call before position p has raised
NoneRaisedBefore(p) ==
    \A x \in Calls : x.pos < p => x.dec.type \notin {"HALT", "raise"}

\* decide PASS, DROP, REPLACE, CONTINUE_DROP or CONTINUE_PASS, the buffer is
\* no longer than max_len.
C3_BoundedBuffer ==
    (\A c \in Calls : c.dec.type \in
        {"PASS", "DROP", "REPLACE", "CONTINUE_DROP", "CONTINUE_PASS"})
    => Len(sp.buffer) <= sp.max_len

\* the input position of the last match dispatched before position p (0: none)
PrevDispatch(p) ==
    LET before == {c.pos : c \in {x \in Calls : x.pos < p}}
    IN  IF before = {} THEN 0 ELSE CHOOSE q \in before : \A r \in before : r <= q

\* the input that ends at position p and starts right after the previous dispatch
Segment(p) == SubSeq(g.inputs, PrevDispatch(p) + 1, p)

\* C4 as claimed - if K1 and K2 both occur in the input ending at position
\* p and K1 is longer, K2's callbacks are not invoked at p.
C4_LongestOfInput ==
    \A c \in Calls : \A K1 \in KwSet(reg.keywords) :
        ~ (/\ Len(K1) > Len(c.kw)
           /\ IsSuffix(K1, SubSeq(g.inputs, 1, c.pos))
           /\ IsSuffix(c.kw, SubSeq(g.inputs, 1, c.pos)))

\* C4 - Longest-match preference, amended: if K1 and K2 are both suffixes of
\* the input that starts right after the previously dispatched match and
\* ends at position p, and K1 is longer, K2's callbacks are not invoked at p.
C4_LongestMatch ==
    \A c \in Calls : \A K1 \in KwSet(reg.keywords) :
        ~ (/\ Len(K1) > Len(c.kw)
           /\ IsSuffix(K1, Segment(c.pos))
           /\ IsSuffix(c.kw, Segment(c.pos)))

\* two keywords end at p within the segment and the longer one is dispatched
C4_Witness ==
    \E c \in Calls : \E K2 \in KwSet(reg.keywords) :
        /\ Len(K2) < Len(c.kw)
        /\ IsSuffix(K2, Segment(c.pos))
        /\ IsSuffix(c.kw, Segment(c.pos))

\* the sum over the applied REPLACE decisions of |text| - |keyword|
RECURSIVE ReplaceDelta(_)
ReplaceDelta(calls) ==
    IF calls = <<>> THEN 0
    ELSE (IF calls[1].dec.type = "REPLACE"
          THEN Len(calls[1].dec.replacement) - Len(calls[1].kw) ELSE 0)
         + ReplaceDelta(Tail(calls))

\* C5 - Output length of a PASS/REPLACE-only rewrite, as claimed: when the
\* callbacks returned only PASS or REPLACE, the characters returned by
\* processing S and then flushing number |S| plus the sum over the applied
\* REPLACE decisions of |text| - |keyword|.
C5_RewriteLength ==
    ((\A c \in Calls : c.dec.type \in {"PASS", "REPLACE"}) /\ Flushed)
    => Len(g.returned) = Len(g.inputs) + ReplaceDelta(g.calls)

\* C6 - Matched-keyword tail, as claimed: whenever DROP or REPLACE is applied
\* for keyword kw (no flush() before), the buffer ends with kw.
C6_KeywordIsTail ==
    \A c \in Calls :
        (c.dec.type \in {"DROP", "REPLACE"} /\ c.flushes = 0)
        => IsSuffix(c.kw, c.buffer)

\* C7 - History output faithfulness, as claimed: history.outputs is exactly
\* what process() and flush() have returned so far.
C7_HistoryOutputs == sp.history.outputs = g.returned

\* C8 - Halt finality, as claimed: a flush() that follows a process() call
\* that raised StreamHalted returns no characters.
C8_NoFlushAfterHalt ==
    (g.halted /\ g.last.op = "flush") => g.last.out = <<>>

----------------------------------------------------------------------------
(* Properties of the adapter, over the adapter runs (SpecAdapter) *)

\* the characters of the items, in order
RECURSIVE Flatten(_)
Flatten(items) == IF items = <<>> THEN <<>> ELSE items[1] \o Flatten(Tail(items))

\* C9 - Adapter halt protocol: in every yield mode, the step in which
\* process() raises StreamHalted while the adapter handles a token yields
\* nothing, not even what process() returned for the token's earlier
\* characters; the adapter has then returned, and from then on it yields
\* nothing, asks the producer for nothing and does not call flush().
C9_HaltProtocol ==
    /\ [](g.halted => /\ ad.pc = "done"
                      /\ Len(ad.yielded) = ad.ymark)
    /\ [][g'.halted => /\ ad'.yielded = ad.yielded
                       /\ ad'.asked = ad.asked
                       /\ g'.flushes = g.flushes]_vars

\* a halt in the second token, after process() returned characters for it
C9_Witness ==
    /\ g.halted
    /\ ad.why = "halt"
    /\ ad.asked = 2
    /\ ad.out_chars # <<>>
    /\ ad.yielded # <<>>

\* C10 as claimed - in char mode, when the generator has returned, what it
\* yielded is everything process() returned followed by what the final
\* flush() returned.
C10_CharRefines ==
    (ad.yield_mode = ModeChar /\ ad.pc = "done")
    => Flatten(ad.yielded) = g.returned

\* the generator stands between two tokens, or in the loop over the items
\* of a token or of the final flush, or has returned on exhaustion
BetweenTokens == ad.pc \in {"fetch", "items", "rest"} \/ ad.why = "exhausted"

\* C10 - Char-mode adapter refines the core, amended: in char mode every
\* item is one character, and the characters yielded (with those of the
\* loop the generator is suspended in, yielded as the consumer goes on) are
\* what process() returned for the characters of the tokens handled to
\* their end without process() raising, followed, once the producer is
\* exhausted, by what flush() returned; what process() returned for a token
\* during which it raises is not yielded.
C10_CharRefinesWholeTokens ==
    ad.yield_mode = ModeChar
    => /\ \A k \in 1..Len(ad.yielded) : Len(ad.yielded[k]) = 1
       /\ \A k \in 1..Len(ad.pending) : Len(ad.pending[k]) = 1
       /\ ad.pc \in {"done", "failed"} => ad.pending = <<>>
       /\ Flatten(ad.yielded \o ad.pending) =
            IF BetweenTokens THEN g.returned
            ELSE SubSeq(g.returned, 1, ad.mark)

C10_Witness ==
    /\ ad.yield_mode = ModeChar
    /\ ad.why = "exhausted"
    /\ ad.asked = 3
    /\ g.last.out # <<>>
    /\ Len(ad.yielded) > Len(g.last.out)
    /\ g.calls # <<>>

\* the tokens the producer has handed over
Fetched == IF ad.why = "exhausted" THEN ad.asked - 1 ELSE ad.asked

\* the tokens handled to their end
Completed ==
    IF ad.pc = "chars" \/ ad.why \in {"halt", "error"} THEN Fetched - 1 ELSE Fetched

\* C11 as claimed - in token mode, when the generator has ended, it has
\* yielded one item per token the producer handed over.
C11_OnePerToken ==
    (ad.yield_mode = ModeToken /\ ad.pc \in {"done", "failed"})
    => Len(ad.yielded) = Fetched

\* C11 - Token-mode cardinality, amended: in token mode the adapter has
\* yielded exactly one item per token handled to its end without process()
\* raising, in the order of the tokens, and the item yielded at the end of a
\* token is what process() returned for the token's characters followed by
\* what the in-token flush() returned (possibly nothing at all).
C11_TokenCardinality ==
    /\ [](ad.yield_mode = ModeToken => Len(ad.yielded) = Completed)
    /\ [][(ad.yield_mode = ModeToken /\ ad.pc = "chars" /\ ad'.pc = "fetch")
          => /\ g'.flushes = g.flushes + 1
             /\ g'.last.op = "flush"
             /\ ad'.yielded =
                  Append(ad.yielded,
                         SubSeq(g.returned, ad.mark + 1, Len(g.returned))
                           \o g'.last.out)]_vars

\* two tokens handled: one gave the empty item, the other an item that ends
\* with what the in-token flush returned
C11_Witness ==
    /\ ad.yield_mode = ModeToken
    /\ ad.why = "exhausted"
    /\ Len(ad.yielded) = 2
    /\ ad.yielded[1] = <<>>
    /\ g.last.op = "flush"
    /\ g.last.out # <<>>
    /\ Len(ad.yielded[2]) > Len(g.last.out)
    /\ g.calls # <<>>

\* the N of the yield mode 'chunk:N' of the run
ChunkSize == ParseInt(SubSeq(ad.yield_mode, Len(ChunkPrefix) + 1, Len(ad.yield_mode))).value

\* C12 as claimed - in chunk mode every item but the last of the stream has
\* exactly N characters, and when the generator has returned the items
\* together are everything process() returned followed by the final flush().
C12_ChunksOfStream ==
    ad.yield_mode = ModeChunk2
    => /\ \A k \in 1..(Len(ad.yielded) - 1) : Len(ad.yielded[k]) = ChunkSize
       /\ ad.pc = "done" => Flatten(ad.yielded) = g.returned

\* C12 - Chunk-mode grouping, amended: in chunk mode the items yielded at the
\* end of a token, and those yielded for the final flush(), each have exactly
\* N characters except possibly the last item of that group, which has
\* between 1 and N, the generator yielding them one at a time, in order;
\* and the items together are what process() returned for
\* the tokens handled to their end without process() raising, followed, once
\* the producer is exhausted, by what the final flush() returned.
C12_ChunksOfGroup ==
    /\ [](ad.yield_mode = ModeChunk2
          => /\ Flatten(ad.yielded \o ad.pending) =
                  IF BetweenTokens THEN g.returned
                  ELSE SubSeq(g.returned, 1, ad.mark)
             /\ ad.pc \in {"done", "failed"} => ad.pending = <<>>)
    /\ [][ad.yield_mode = ModeChunk2
          => LET n   == Len(ad.yielded)
                 new == SubSeq(ad'.yielded, n + 1, Len(ad'.yielded))
                        \o ad'.pending
             IN  /\ Len(ad'.yielded) >= n
                 /\ SubSeq(ad'.yielded, 1, n) = ad.yielded
                 /\ Len(ad'.yielded) <= n + 1
                 /\ ad'.yielded \o ad'.pending = ad.yielded \o ad.pending
                    \/ ad.pending = <<>>
                 /\ \A k \in 1..Len(new) :
                      \/ Len(new[k]) = ChunkSize
                      \/ k = Len(new) /\ Len(new[k]) \in 1..(ChunkSize - 1)]_vars

\* a stream whose first token gave a full item and a short one, and whose
\* final flush gave more
C12_Witness ==
    /\ ad.yield_mode = ModeChunk2
    /\ ad.why = "exhausted"
    /\ Len(ad.yielded) >= 3
    /\ Len(ad.yielded[1]) = 2
    /\ Len(ad.yielded[2]) = 1
    /\ g.last.out # <<>>

\* the yield modes of the grammar, among those of the runs
ValidModes == {ModeChar, ModeToken, ModeChunk2}

\* C13 - Yield-mode validation, as claimed: with a yield mode outside the
\* grammar the wrapped producer never runs to exhaustion without a
\* ValueError, and applying the decorator to something that is not a
\* generator function fails with a TypeError.
C13_InvalidModeRejected ==
    /\ (ad.yield_mode \notin ValidModes /\ ad.target # "function")
       => ad.why # "exhausted"
    /\ ad.target = "function" => (ad.pc = "failed" /\ ad.why = "TypeError")

----------------------------------------------------------------------------
(* Properties of the drop/pass mode, over the direct runs (Spec) *)

\* the drop mode the state machine of the specification gives after the
\* decision of invocation c
ModeAfter(c) ==
    IF c.dec.type = "CONTINUE_DROP" THEN TRUE
    ELSE IF c.dec.type = "CONTINUE_PASS" THEN FALSE
    ELSE c.drop_mode

\* invocation c is a CONTINUE_DROP in drop mode or a CONTINUE_PASS in pass mode
Redundant(c) ==
    \/ c.dec.type = "CONTINUE_DROP" /\ c.drop_mode
    \/ c.dec.type = "CONTINUE_PASS" /\ ~c.drop_mode

\* C14 - Drop-mode state machine: drop_mode is false on construction; a
\* decision leaves it true if it is CONTINUE_DROP, false if it is
\* CONTINUE_PASS and as it was otherwise (PASS, DROP, REPLACE, HALT, nothing
\* returned, an exception); between the decisions, in the lazy flush and in
\* flush() it does not change; and a CONTINUE_PASS in pass mode or a
\* CONTINUE_DROP in drop mode leaves the buffer and the list of emitted
\* characters as they were.
C14_DropModeMachine ==
    /\ []((g.inputs = <<>>) => ~sp.drop_mode)
    /\ [](\A c \in Calls :
            /\ c.after.drop_mode = ModeAfter(c)
            /\ Redundant(c) => (c.after.buffer = c.buffer /\ c.after.out = c.out))
    /\ [][LET new == SubSeq(g'.calls, Len(g.calls) + 1, Len(g'.calls))
          IN  /\ sp'.drop_mode = IF new = <<>> THEN sp.drop_mode
                                 ELSE new[Len(new)].after.drop_mode
              /\ new # <<>> => new[1].drop_mode = sp.drop_mode
              /\ \A k \in 1..(Len(new) - 1) :
                   new[k + 1].drop_mode = new[k].after.drop_mode]_vars

\* both redundant decisions have been applied, the CONTINUE_DROP with
\* characters in the buffer, and a flush() was made in drop mode
C14_Witness ==
    /\ \E c \in Calls : c.dec.type = "CONTINUE_DROP" /\ c.drop_mode /\ c.buffer # <<>>
    /\ \E c \in Calls : c.dec.type = "CONTINUE_PASS" /\ ~c.drop_mode /\ c.buffer # <<>>
    /\ \E c \in Calls : c.dec.type = "CONTINUE_PASS" /\ c.drop_mode
    /\ sp.drop_mode
    /\ g.last.op = "flush"

\* what the decision of invocation c added to the list out
EmittedBy(c) == SubSeq(c.after.out, Len(c.out) + 1, Len(c.after.out))

\* the characters of the buffer given to invocation c that precede the
\* matched keyword: those from input positions before the keyword's, and
\* replacement characters
BeforeKeyword(c) ==
    SelectSeq([k \in 1..Len(c.buffer) |-> <<c.buffer[k], c.src[k]>>],
              LAMBDA e : e[2] <= c.pos - Len(c.kw))

\* C15 - Drop-mode entry edge, as claimed (here for runs without flush()):
\* a CONTINUE_DROP applied in pass mode emits exactly the buffered
\* characters that precede the matched keyword, in buffer order, leaves the
\* buffer empty and drop_mode true, and the keyword's own characters are
\* never returned.
C15_EntryEdge ==
    \A c \in Calls :
        (c.dec.type = "CONTINUE_DROP" /\ ~c.drop_mode /\ g.flushes = 0)
        => /\ EmittedBy(c) = [k \in 1..Len(BeforeKeyword(c)) |-> BeforeKeyword(c)[k][1]]
           /\ c.after.buffer = <<>>
           /\ c.after.drop_mode
           /\ \A q \in (c.pos - Len(c.kw) + 1)..c.pos : q \notin Range(g.retSrc)

\* C16 - Drop-mode exit edge, as claimed: with no flush() so far, a
\* CONTINUE_PASS applied in drop mode emits exactly the characters of the
\* matched keyword, leaves the buffer empty and drop_mode false.
C16_ExitEdge ==
    \A c \in Calls :
        (c.dec.type = "CONTINUE_PASS" /\ c.drop_mode /\ c.flushes = 0)
        => /\ EmittedBy(c) = c.kw
           /\ c.after.buffer = <<>>
           /\ ~c.after.drop_mode

\* C17 - Suppression while in drop mode: a process() call that ends in drop
\* mode returns, and records as output, only what its callbacks emitted:
\* the character its lazy flush removes from the head of the buffer is
\* neither returned nor recorded; and a flush() in drop mode returns the
\* empty list, empties the buffer and records nothing.
C17_Suppression ==
    /\ [][(sp'.drop_mode /\ Len(g'.inputs) = Len(g.inputs) + 1
             /\ g'.last.exc = "none")
          => LET new   == SubSeq(g'.calls, Len(g.calls) + 1, Len(g'.calls))
                 cbOut == IF new = <<>> THEN <<>> ELSE new[Len(new)].after.out
             IN  /\ g'.last.out = cbOut
                 /\ g'.returned = g.returned \o cbOut
                 /\ sp'.history.outputs = sp.history.outputs \o cbOut]_vars
    /\ [][(sp.drop_mode /\ g'.flushes = g.flushes + 1)
          => /\ g'.last.out = <<>>
             /\ g'.returned = g.returned
             /\ sp'.buffer = <<>>
             /\ sp'.history = sp.history]_vars

\* after the CONTINUE_DROP at position p two more characters were processed
\* without a match, with max_len 1: the lazy flush removed the first of them
\* in drop mode, and a flush() in drop mode discarded the second
C17_Witness ==
    /\ sp.drop_mode
    /\ sp.max_len = 1
    /\ g.last.op = "flush"
    /\ \E c \in Calls :
         /\ c.dec.type = "CONTINUE_DROP"
         /\ Len(g.inputs) >= c.pos + 2
         /\ \A c2 \in Calls : c2.pos <= c.pos
    /\ \A q \in 1..Len(g.retSrc) : g.retSrc[q] < Len(g.inputs) - 1

----------------------------------------------------------------------------
(* Property of the drop/pass mode over the twin runs (SpecTwin) *)

\* C18 - Drop-mode idempotence: the run in which a CONTINUE_DROP that
\* follows a CONTINUE_DROP with no CONTINUE_PASS between them (or a
\* CONTINUE_PASS that follows a CONTINUE_PASS with no CONTINUE_DROP between
\* them) is replaced by PASS has, at every point and so at its end, returned
\* the same characters and has the same drop_mode as the run in which it is
\* not replaced.
C18_Idempotence ==
    twin.replaced # ""
    => /\ twin.returned = g.returned
       /\ twin.sp.drop_mode = sp.drop_mode

\* a repeated CONTINUE_DROP was replaced while characters were buffered, the
\* run went on, returned characters and ended with flush()
C18_Witness ==
    /\ twin.replaced = "CONTINUE_DROP"
    /\ g.calls[twin.at].buffer # <<>>
    /\ Len(g.calls) > twin.at
    /\ g.returned # <<>>
    /\ g.last.op = "flush"

----------------------------------------------------------------------------
(* Properties of the callback protocol, over the direct runs (Spec), whose
   processors record history (record_history = True, the default) *)

\* the invocations that returned a decision, as history.actions records them
RECURSIVE DecisionsOf(_)
DecisionsOf(calls) ==
    IF calls = <<>> THEN <<>>
    ELSE DecisionsOf(Front(calls)) \o
         (IF Last(calls).dec \in {ReturnsNone, Raises} THEN <<>>
          ELSE <<[pos |-> Last(calls).pos, kw |-> Last(calls).kw,
                  decision |-> Last(calls).dec]>>)

\* C19 - HALT short-circuit: with a recording history, history.actions is
\* at every point the list of (pos, keyword, decision) of the invocations
\* that returned a decision, HALT included, in invocation order; no callback
\* is invoked after one that returned HALT in the same process() call; and
\* that call raises StreamHalted and returns nothing.
C19_HaltShortCircuit ==
    /\ sp.history.actions = DecisionsOf(g.calls)
    /\ \A c, c2 \in Calls :
         (c.dec = halt /\ c2.pos = c.pos) => c2.i <= c.i
    /\ (g.last.op = "process" /\ \E c \in Calls : c.pos = sp.pos /\ c.dec = halt)
       => (g.last.exc = "halt" /\ g.last.out = <<>> /\ g.halted)

\* a first callback of two returned HALT, so the second was not invoked, and
\* in a later call the second callback returned HALT after the first had
\* returned another decision
C19_Witness ==
    /\ \E c \in Calls :
         /\ c.dec = halt /\ c.i = 1
         /\ \E e \in Range(reg.keywords) : e.kw = c.kw /\ Len(e.callbacks) = 2
    /\ \E c \in Calls : c.dec = halt /\ c.i = 2 /\ c.pos = sp.pos
    /\ g.last.exc = "halt"

\* the callbacks registered for keyword kw, in registration order
Registered(kw) ==
    (CHOOSE e \in Range(reg.keywords) : e.kw = kw).callbacks

\* C20 - Callback order and context: the invocations of a process() call
\* are those of the callbacks registered for the dispatched keyword, in
\* registration order, one invocation per registration (up to the first that
\* returns HALT or raises); each is given absolute_pos equal to the number
\* of characters passed to process() so far and, the history recording, a
\* history whose inputs are exactly those characters, the one being
\* processed included.
C20_OrderAndContext ==
    /\ [](\A c \in Calls :
            /\ c.kw \in KwSet(reg.keywords)
            /\ c.i <= Len(Registered(c.kw))
            /\ c.dec \in Returns(Registered(c.kw)[c.i])
            /\ c.inputs = SubSeq(g.inputs, 1, c.pos)
            /\ (c.i < Len(Registered(c.kw)) /\ c.dec.type \notin {"HALT", "raise"})
               => \E c2 \in Calls : c2.pos = c.pos /\ c2.i = c.i + 1)
    /\ [][LET new == SubSeq(g'.calls, Len(g.calls) + 1, Len(g'.calls))
          IN  \A k \in 1..Len(new) :
                /\ new[k].i = k
                /\ new[k].kw = new[1].kw
                /\ new[k].pos = Len(g'.inputs)
                /\ new[k].pos = Len(g.inputs) + 1]_vars

\* at the fourth character the two callbacks of 'ab' were invoked, the first
\* returning what only the first can return, the second what only the
\* second can
C20_Witness ==
    \E c1, c2 \in Calls :
        /\ c1.pos = 4 /\ c2.pos = 4
        /\ c1.i = 1 /\ c2.i = 2
        /\ c1.dec \notin Returns(Registered(c1.kw)[2])
        /\ c2.dec \notin Returns(Registered(c1.kw)[1])
        /\ c1.inputs = <<"a", "b", "a", "b">>

----------------------------------------------------------------------------
(* Properties over the paired runs (SpecPair) *)

\* the matches dispatched in a run: position and keyword of the first
\* invocation of each
RECURSIVE Dispatches(_)
Dispatches(calls) ==
    IF calls = <<>> THEN <<>>
    ELSE Dispatches(Front(calls)) \o
         (IF Last(calls).i = 1 THEN <<<<Last(calls).pos, Last(calls).kw>>>> ELSE <<>>)

\* C21 - Replacement text is never re-matched: two runs over the same input
\* and the same registry, whose callbacks return decisions of their own
\* (none HALT, none raising), dispatch the same matches: the same keywords
\* at the same positions.
C21_SameDispatches == Dispatches(twin.calls) = Dispatches(g.calls)

\* in one run 'ab' was replaced by 'aba', which contains 'ab', in the other
\* it was passed, and two more characters were processed
C21_Witness ==
    /\ Len(g.calls) >= 1
    /\ g.calls[1].dec = replace(<<"a", "b", "a">>)
    /\ twin.calls[1].dec = passthrough
    /\ Len(g.inputs) >= g.calls[1].pos + 2
    /\ g.inputs[g.calls[1].pos + 1] = "b"

\* C25 - History flag: with record_history disabled every callback observes
\* empty inputs, outputs and actions at every match, and when the callbacks
\* return what they return in the run with the history enabled, process()
\* and flush() return the same characters as in that run.
C25_HistoryFlag ==
    ~twin.record_history =>
        /\ \A k \in 1..Len(twin.calls) :
              /\ twin.calls[k].history.inputs = <<>>
              /\ twin.calls[k].history.outputs = <<>>
              /\ twin.calls[k].history.actions = <<>>
        /\ twin.same => twin.returned = g.returned

\* a run without history whose callbacks decided as in the run with history:
\* the latter's callbacks have seen inputs, outputs and actions, a REPLACE
\* was applied and characters were returned
C25_Witness ==
    /\ ~twin.record_history
    /\ twin.same
    /\ twin.returned # <<>>
    /\ \E k \in 1..Len(g.calls) :
          /\ g.calls[k].history.outputs # <<>>
          /\ g.calls[k].history.actions # <<>>
          /\ g.calls[k].dec.type = "DROP"
          /\ twin.calls[k].dec.type = "DROP"

\* no callback of the run has returned HALT or raised
NeverHalted == \A c \in Calls : c.dec.type \notin {"HALT", "raise"}

\* the pairs of registered keywords of which the first is a proper prefix of
\* the second
PrefixPairs ==
    {pair \in KwSet(reg.keywords) \X KwSet(reg.keywords) :
        /\ Len(pair[1]) < Len(pair[2])
        /\ SubSeq(pair[2], 1, Len(pair[1])) = pair[1]}

\* K is completed at position p: the input read since the previous dispatch
\* ends with K
CompletedAt(K, p) == IsSuffix(K, Segment(p))

\* C27 as claimed - if registered keyword K1 is a proper prefix of registered
\* keyword K2, K1 is dispatched at every position where K1 is completed, and
\* K2's callbacks are never invoked (in runs without HALT or exception).
C27_PrefixFirstAlways ==
    NeverHalted =>
        \A pair \in PrefixPairs :
            /\ \A c \in Calls : c.kw # pair[2]
            /\ \A p \in 1..Len(g.inputs) :
                  CompletedAt(pair[1], p)
                  => \E c \in Calls : c.pos = p /\ c.kw = pair[1]

\* C27 - Shorter prefix keyword fires first, amended: if registered keyword
\* K1 is a proper prefix of registered keyword K2, a match is dispatched at
\* every position where K1 is completed (K1 itself, unless a longer
\* registered keyword is completed at the same position, which is then
\* dispatched), the characters that follow are matched afresh, and K2's
\* callbacks are never invoked (in runs without HALT or exception).
C27_PrefixFirst ==
    NeverHalted =>
        \A pair \in PrefixPairs :
            /\ \A c \in Calls : c.kw # pair[2]
            /\ \A p \in 1..Len(g.inputs) :
                  CompletedAt(pair[1], p)
                  => \E c \in Calls :
                        /\ c.pos = p
                        /\ CompletedAt(c.kw, p)
                        /\ Len(c.kw) >= Len(pair[1])
                        /\ (c.kw # pair[1]
                            => \E K3 \in KwSet(reg.keywords) :
                                  Len(K3) > Len(pair[1]) /\ CompletedAt(K3, p))

\* K1 = 'b' is a prefix of K2 = 'bb'; 'b' has been dispatched, then the
\* input went on with what would have completed 'bb', and 'b' was dispatched
\* again
C27_Witness ==
    /\ NeverHalted
    /\ <<<<"b">>, <<"b", "b">>>> \in PrefixPairs
    /\ \E c, d \in Calls :
          /\ c.kw = <<"b">> /\ d.kw = <<"b">>
          /\ d.pos = c.pos + 1

----------------------------------------------------------------------------
(* Properties of the matcher (SpecMatcher) *)

\* the registered keywords completed at position q
Found(q) == {K \in KwSet(reg.keywords) : CompletedAt(K, q)}

\* C28 - Matcher agrees with a reference matcher: in runs whose callbacks
\* never halt or raise, a match is dispatched at input position q if and
\* only if some registered keyword is a suffix of the input that starts
\* right after the previous dispatch position (or at the stream start) and
\* ends at q, and the dispatched keyword is the longest such keyword.
C28_ReferenceMatcher ==
    NeverHalted =>
        \A q \in 1..Len(g.inputs) :
            /\ (\E c \in Calls : c.pos = q) <=> Found(q) # {}
            /\ \A c \in Calls :
                  c.pos = q => /\ c.kw \in Found(q)
                               /\ \A K \in Found(q) : Len(K) <= Len(c.kw)

\* a keyword was found through a failure link (it does not start where the
\* segment starts) while a shorter one was completed too, after an earlier
\* dispatch
C28_Witness ==
    /\ NeverHalted
    /\ \E c, d \in Calls :
          /\ d.pos < c.pos
          /\ Len(c.kw) < Len(Segment(c.pos))
          /\ Cardinality(Found(c.pos)) >= 2

\* C29 - Dispatched matches never overlap in the input: in a run where
\* process() always returns normally, if matches are dispatched at positions
\* p1 < p2 and the second has keyword length L2, then p2 - L2 >= p1; so 'aa'
\* over 'aaaa' is dispatched exactly twice, at positions 2 and 4.
C29_NoOverlap ==
    NeverHalted =>
        /\ \A c, d \in Calls :
              c.pos < d.pos => d.pos - Len(d.kw) >= c.pos
        /\ (/\ KwSet(reg.keywords) = {<<"a", "a">>}
            /\ g.inputs = <<"a", "a", "a", "a">>)
           => Dispatches(g.calls) = << <<2, <<"a", "a">>>>, <<4, <<"a", "a">>>> >>

\* 'aa' over 'aaaa'
C29_Witness ==
    /\ NeverHalted
    /\ KwSet(reg.keywords) = {<<"a", "a">>}
    /\ g.inputs = <<"a", "a", "a", "a">>
    /\ Len(g.calls) = 2

\* m is a proper suffix of n
ProperSuffix(m, n) == Len(m) < Len(n) /\ IsSuffix(m, n)

\* C30 - Compiled automaton invariant: after compile(), each keyword is
\* spelled by one path from the root (the nodes are the prefixes of the
\* keywords, each below its one parent); the root's failure link is the
\* root; every other node's failure link is the longest proper suffix of
\* its string that is a trie path, hence strictly shallower; and each node's
\* output lists exactly the registered keywords that are suffixes of the
\* node's string, with their callbacks, each once, in strictly decreasing
\* length, the node's own keyword first if it terminates one.
C30_Automaton ==
    LET A == reg.root
        K == KwSet(reg.keywords)
    IN  /\ reg.compiled
        /\ sp.root = A
        /\ K \subseteq A.nodes
        /\ \A n \in A.nodes :
              /\ n = root \/ Front(n) \in A.nodes
              /\ \E kw \in K \cup {root} : Len(n) <= Len(kw) /\ SubSeq(kw, 1, Len(n)) = n
        /\ A.fail[root] = root
        /\ \A n \in A.nodes \ {root} :
              /\ A.fail[n] \in A.nodes
              /\ ProperSuffix(A.fail[n], n)
              /\ \A m \in A.nodes : ProperSuffix(m, n) => Len(m) <= Len(A.fail[n])
        /\ \A n \in A.nodes :
              LET out == A.output[n]
              IN  /\ {out[i].kw : i \in 1..Len(out)} = {kw \in K : IsSuffix(kw, n)}
                  /\ \A i, j \in 1..Len(out) : i < j => Len(out[i].kw) > Len(out[j].kw)
                  /\ \A i \in 1..Len(out) : out[i] \in Range(reg.keywords)
                  /\ n \in K => out[1].kw = n

\* a node whose output lists three keywords, its failure link leading to a
\* node that is not the root and has a failure link of its own
C30_Witness ==
    \E n \in reg.root.nodes :
        /\ Len(reg.root.output[n]) = 3
        /\ reg.root.fail[n] # root
        /\ reg.root.fail[reg.root.fail[n]] # root
        /\ Len(g.inputs) >= 1

----------------------------------------------------------------------------
(* Properties of the two wrappers (SpecBoth) *)

\* the frame once the consumer has taken every item of the loop the
\* generator is suspended in: what it has yielded and where it stands
RunOn(a) ==
    [yielded |-> a.yielded \o a.pending,
     pc |-> IF a.pc \in {"items", "rest"} THEN a.after.pc ELSE a.pc,
     why |-> IF a.pc \in {"items", "rest"} THEN a.after.why ELSE a.why]

IsPrefix(s, t) == Len(s) <= Len(t) /\ SubSeq(t, 1, Len(s)) = s

\* C26 - Sync/async adapter equivalence: for every registry, yield_mode and
\* finite token sequence, async_wrap around an asynchronous producer yields
\* the same sequence of items as sync_wrap around a synchronous producer of
\* the same tokens, and ends as it does (return or exception), halts
\* included: when the two producers are equally far, the two generators,
\* their consumers taking the items of the loops they are suspended in,
\* have yielded the same items and stand at the same place; and the items
\* either one has yielded so far are the first of those.
C26_SyncAsync ==
    ~twin.thrown =>
        /\ twin.owed = <<>> => RunOn(twin.ad) = RunOn(ad)
        /\ IsPrefix(twin.ad.yielded, RunOn(ad).yielded)
        /\ IsPrefix(RunOn(twin.ad).yielded, RunOn(ad).yielded)
        /\ (twin.owed = <<>> /\ twin.ad.pc = ad.pc) =>
              (twin.ad.pc \in {"done", "failed", "fetch"} =>
                  twin.ad.yielded = ad.yielded /\ twin.ad.why = ad.why)

\* both wrappers have yielded an item for a first token and have returned
\* on a halt in the second
C26_Witness ==
    /\ ~twin.thrown
    /\ ad.why = "halt"
    /\ twin.ad.why = "halt"
    /\ ad.asked = 2
    /\ twin.ad.yielded # <<>>
    /\ twin.ad.target = "asyncgen"
    /\ ad.target = "generator"

----------------------------------------------------------------------------
(* Properties of the registry (SpecRegistry) *)

\* the length of the longest keyword of the map, 0 if there is none
LongestLen(keywords) ==
    IF keywords = <<>> THEN 0
    ELSE CHOOSE n \in {Len(kw) : kw \in KwSet(keywords)} :
             \A kw \in KwSet(keywords) : Len(kw) <= n

\* the (keyword, callbacks) pairs an automaton dispatches
Dispatchable(A) == UNION {Range(A.output[n]) : n \in A.nodes}

\* the automaton A and the length m are those of the keyword map
Fresh(A, m, keywords) ==
    /\ m = LongestLen(keywords)
    /\ Dispatchable(A) = Range(keywords)
    /\ A = Automaton(keywords)

\* C22 - Registry freshness: after any sequence of register, deregister,
\* compile and max_len calls, max_len() returns the length of the longest
\* currently registered keyword (0 if none); a StreamProcessor constructed
\* then matches exactly the current keywords with their current callback
\* lists; a registry marked compiled holds the automaton and the maximum
\* length of its current keyword map.
C22_Freshness ==
    /\ g.last.op = "max_len" => g.last.ret = LongestLen(reg.keywords)
    /\ g.last.op = "construct" => Fresh(sp.root, sp.max_len, reg.keywords)
    /\ reg.compiled => Fresh(reg.root, reg.max_len, reg.keywords)

\* max_len() called on a registry compiled earlier and changed since
C22_Witness ==
    /\ g.last.op = "max_len"
    /\ g.ops = 4
    /\ g.last.ret = 2
    /\ Len(reg.keywords) = 2

\* what is left of a callback list once its first `callback` is taken out
WithoutFirst(cbs, callback) ==
    LET first == CHOOSE k \in 1..Len(cbs) :
                     cbs[k] = callback /\ \A m \in 1..(k-1) : cbs[m] # callback
    IN  [k \in 1..(Len(cbs) - 1) |-> IF k < first THEN cbs[k] ELSE cbs[k + 1]]

\* the list registered for a keyword of the map
CallbacksOf(keywords, keyword) ==
    (CHOOSE e \in Range(keywords) : e.kw = keyword).callbacks

\* the map as a function from its keywords to their lists
AsMap(keywords) == [kw \in KwSet(keywords) |-> CallbacksOf(keywords, kw)]

\* the map without one keyword
MapWithout(keywords, keyword) ==
    [kw \in KwSet(keywords) \ {keyword} |-> CallbacksOf(keywords, kw)]

\* C23 - Deregister semantics: deregister(keyword, callback) removes exactly
\* the first occurrence of callback from the keyword's list, and the keyword
\* itself when the list becomes empty; deregister(keyword) removes the
\* keyword with all its callbacks; when the keyword or the callback is not
\* registered the map is left unchanged (and the call returns normally).
C23_Deregister ==
    [][ g'.last.op = "deregister" =>
          LET keyword  == g'.last.kw
              callback == g'.last.cb
              present  == keyword \in KwSet(reg.keywords)
              cbs      == CallbacksOf(reg.keywords, keyword)
          IN  /\ ~present => reg'.keywords = reg.keywords
              /\ present /\ callback = None =>
                    AsMap(reg'.keywords) = MapWithout(reg.keywords, keyword)
              /\ present /\ callback # None /\ callback \notin Range(cbs) =>
                    reg'.keywords = reg.keywords
              /\ present /\ callback \in Range(cbs) /\ Len(cbs) = 1 =>
                    AsMap(reg'.keywords) = MapWithout(reg.keywords, keyword)
              /\ present /\ callback \in Range(cbs) /\ Len(cbs) > 1 =>
                    AsMap(reg'.keywords) =
                        [AsMap(reg.keywords) EXCEPT ![keyword] = WithoutFirst(cbs, callback)]
      ]_vars

\* a callback registered twice for a keyword, another one between the two,
\* and one deregister of it: the first occurrence is gone
C23_Witness ==
    /\ g.last.op = "deregister"
    /\ g.last.cb = "quiet"
    /\ g.ops = 4
    /\ reg.keywords = <<KwEntry(g.last.kw, <<"drops", "quiet">>)>>

----------------------------------------------------------------------------
(* Properties of process and flush (Spec), continued *)

\* C24 - Output ordering: the returned characters that come from the input
\* appear in increasing order of their input position, and what a call
\* returns while processing one position comes after everything returned for
\* the positions before it (and is made of characters up to that position).
C24_Ordering ==
    /\ [](\A i, j \in 1..Len(g.retSrc) :
             i < j /\ g.retSrc[i] # 0 /\ g.retSrc[j] # 0 => g.retSrc[i] < g.retSrc[j])
    /\ [][ /\ g'.returned = g.returned \o g'.last.out
           /\ \A i \in (Len(g.retSrc) + 1)..Len(g'.retSrc) :
                 g'.retSrc[i] <= Len(g'.inputs) ]_vars

\* an input character, replacement text and a later input character have
\* been returned, by more than one call
C24_Witness ==
    /\ \E i, j, k \in 1..Len(g.retSrc) :
         i < j /\ j < k /\ g.retSrc[i] # 0 /\ g.retSrc[j] = 0 /\ g.retSrc[k] # 0
    /\ g.last.op = "process"
    /\ g.last.out # <<>>
    /\ Len(g.last.out) < Len(g.returned)

\* C33 - flush() frame and idempotence: flush() leaves the automaton node,
\* pos and drop_mode unchanged and leaves the buffer empty, so a flush()
\* directly after it returns the empty list (and changes nothing); hence a
\* keyword completed since the previous dispatch is dispatched even when a
\* flush() came between its characters (runs without HALT or exception).
C33_FlushFrame ==
    /\ [][ g'.flushes # g.flushes =>
             /\ sp'.node = sp.node
             /\ sp'.pos = sp.pos
             /\ sp'.drop_mode = sp.drop_mode
             /\ sp'.buffer = <<>>
             /\ sp'.root = sp.root /\ sp'.max_len = sp.max_len
             /\ flush(sp').out = <<>>
             /\ flush(sp').sp = sp' ]_vars
    /\ [](NeverHalted =>
            \A q \in 1..Len(g.inputs) :
                Found(q) # {} => \E c \in Calls : c.pos = q /\ c.kw \in Found(q))

\* a keyword of two characters or more has been dispatched after a flush()
\* that came between its characters: the buffer held less than the keyword
C33_Witness ==
    /\ NeverHalted
    /\ \E c \in Calls :
          /\ c.i = 1
          /\ c.flushes >= 1
          /\ Len(c.kw) >= 2
          /\ Len(c.buffer) < Len(c.kw)

----------------------------------------------------------------------------
(* Properties of the runs with DROP for REPLACE of the empty string (SpecSwap) *)

\* C31 - REPLACE with the empty string is equivalent to DROP: with every
\* REPLACE("") decision replaced by DROP, the buffer is the same after every
\* step and the characters returned are the same (and so are the drop-mode
\* flag, the position and the automaton node).
C31_EmptyReplaceIsDrop ==
    /\ twin.sp.buffer = sp.buffer
    /\ twin.returned = g.returned
    /\ twin.sp.drop_mode = sp.drop_mode
    /\ twin.sp.pos = sp.pos
    /\ twin.sp.node = sp.node

\* a REPLACE("") was decided while the buffer held the keyword and more,
\* and characters have been returned since
C31_Witness ==
    /\ twin.swapped >= 1
    /\ g.returned # <<>>
    /\ \E c \in Calls :
          /\ c.dec = replace(<<>>)
          /\ Len(c.buffer) > Len(c.kw)
          /\ c.pos < Len(g.inputs)

----------------------------------------------------------------------------
(* Properties of a processor whose registry is changed (SpecSnap) *)

\* the invocations as a caller sees them: where, for which keyword, which
\* callback of the list, with what buffer
Seen(calls) ==
    [k \in 1..Len(calls) |->
        [pos |-> calls[k].pos, kw |-> calls[k].kw, i |-> calls[k].i,
         buffer |-> calls[k].buffer, dec |-> calls[k].dec]]

\* C32 - Processor snapshot isolation: the processor uses the automaton and
\* max_len captured at its construction: whatever register, deregister and
\* compile calls the registry takes afterwards, the automaton the processor
\* holds, followed through the objects as they are now, is the one of the
\* keywords at construction; it dispatches the matches, invokes the
\* callbacks and returns the characters of a processor whose registry was
\* left alone, with the same buffer capacity; callbacks added to a keyword
\* after compilation are not invoked by it.
C32_Snapshot ==
    /\ AutomatonAt(reg, sp.root) = Automaton(twin.keywords)
    /\ sp.max_len = MaxKwLen(twin.keywords)
    /\ Loaded(reg, sp) = twin.sp
    /\ g.returned = twin.returned
    /\ Seen(g.calls) = Seen(twin.calls)
    /\ \A c \in Calls :
          /\ c.kw \in KwSet(twin.keywords)
          /\ c.i <= Len(CallbacksOf(twin.keywords, c.kw))

\* a callback was appended to the list of 'b' and the registry compiled
\* again, into another automaton with another maximum length; the processor
\* then dispatched 'b' and invoked the one callback it had at construction
C32_Witness ==
    /\ reg.registry.compiled
    /\ reg.registry.root # sp.root
    /\ reg.registry.max_len # sp.max_len
    /\ <<"b">> \in KwSet(reg.registry.keywords)
    /\ reg.lists[ListOf(reg, <<"b">>)] = <<"drops", "stop">>
    /\ twin.last = "process"
    /\ g.calls # <<>>
    /\ Last(g.calls).kw = <<"b">>
    /\ Last(g.calls).pos = Len(g.inputs)
    /\ Last(g.calls).i = 1
    /\ \A c \in Calls : c.pos = Len(g.inputs) => c.i = 1


----------------------------------------------------------------------------
(* Properties of the StreamManager (SpecManager) *)


\* the turn called the callback of the first rule, in registration order,
\* whose keyword is a substring of the token, and no other; none if no
\* keyword is
SelectsFirst(rules, t) ==
    IF \A j \in 1..Len(rules) : ~Contains(rules[j].kw, t.tok)
    THEN t.called = 0 /\ t.found = 0
    ELSE /\ t.called \in 1..Len(rules)
         /\ Contains(rules[t.called].kw, t.tok)
         /\ \A j \in 1..(t.called - 1) : ~Contains(rules[j].kw, t.tok)
         /\ t.res \in ManagerReturns(rules[t.called].cb)
         /\ t.found >= 1

\* what the turn yields for what the callback returned
YieldsAsDecided(t) ==
    IF t.called # 0 /\ t.res.action \in {"DROP_TOKEN", "HALT"}
    THEN t.yielded = <<>>
    ELSE IF t.called # 0 /\ t.res.action = "REPLACE" /\ t.res.repl # Nothing
    THEN t.yielded = t.res.repl
    ELSE t.yielded = <<t.tok>>

\* C34 - token-level rule selection of StreamManager: for every token at most
\* one callback is invoked, that of the first rule in registration order
\* whose keyword is a substring of the token; DROP_TOKEN yields nothing,
\* REPLACE with a replacement yields the replacement, HALT ends the stream
\* without yielding the token or consuming later tokens, otherwise the token
\* is yielded unchanged; with history enabled history.inputs is the tokens
\* consumed and history.outputs the tokens yielded; process_async yields the
\* same sequence as process (callbacks that return).  Every turn of the loop
\* is the last turn of the state it leads to.
C34_Manager ==
    /\ [](g.last.pc # "none" =>
            /\ g.last.res # Raised => YieldsAsDecided(g.last)
            /\ g.last.called # 0 /\ g.last.res.action = "HALT" => ad.pc = "done"
            /\ g.last.pc # "running" => ad.pc = g.last.pc)
    /\ [](/\ reg.history.present =>
               /\ reg.history.inputs = g.consumed
               /\ reg.history.outputs = g.yielded
          /\ ~reg.history.present =>
               reg.history.inputs = <<>> /\ reg.history.outputs = <<>>
          /\ twin.yielded = g.yielded
          /\ twin.pc = ad.pc
          /\ twin.manager = reg)
    /\ [][/\ ad.pc # "running" =>
               g'.consumed = g.consumed /\ g'.yielded = g.yielded
          /\ g'.consumed # g.consumed =>
               /\ g'.consumed = Append(g.consumed, g'.last.tok)
               /\ g'.yielded = g.yielded \o g'.last.yielded
               /\ SelectsFirst(reg.rules, g'.last)
          /\ g'.consumed = g.consumed => g'.yielded = g.yielded]_vars

\* a token held the keywords of two rules with different callbacks, both
\* registered after a first token had been consumed and yielded with no
\* callback (the first rule's keyword is in every token, and the history
\* has one action); the first one's callback replaced the token
C34_Witness ==
    /\ reg.history.present
    /\ twin.yielded = g.yielded
    /\ Len(g.consumed) = 2
    /\ g.last.found = 2
    /\ Len(reg.rules) = 2
    /\ reg.rules[1].cb # reg.rules[2].cb
    /\ g.last.called = 1
    /\ g.last.res.action = "REPLACE"
    /\ g.last.yielded = <<<<"b">>>>
    /\ g.last.tok # <<"b">>
    /\ g.yielded[1] = g.consumed[1]
    /\ reg.rules[1].kw = <<>>
    /\ Len(reg.history.actions) = 1
    /\ g.consumed[1] # g.last.tok

====
